---- MODULE Spec2Model ----
(***************************************************************************)
(* A model of the virtio-MMIO control plane of bao-vhost-frontend:         *)
(* the BaoMmio register file (src/src/mmio.rs), the calls it makes on the  *)
(* vhost-user client (Generic) and the ioeventfd requests it issues to the *)
(* Bao kernel module through BaoDeviceModel (src/src/devicemodel.rs).      *)
(*                                                                         *)
(* Representation.  A 32-bit register holds a natural number; the 64-bit   *)
(* feature words (driver_features, the backend's device_features) are held *)
(* as the set of their bit positions 0..63, so that 0x0000_0003_0000_0000 *)
(* is {32, 33}.  Vec indices are 0-based as in the source; the sequence    *)
(* holding a Vec is read at index + 1.                                     *)
(*                                                                         *)
(* Panics.  An operation of the engine returns an outcome [m, g, res]:     *)
(* the engine, the backend as it has been called, and the result           *)
(* (kind "ok", "err" or "panic").  A panic unwinds through the MutexGuard  *)
(* of BaoDevice::mmio, which poisons the mutex: every later                *)
(* self.mmio.lock().unwrap() of BaoDevice::io_event panics in turn.        *)
(***************************************************************************)
EXTENDS Integers, Sequences, FiniteSets, TLC

\* ---------------------------------------------------------------- bounds

\* The largest number of virtqueues a backend advertises in the model.
MaxQueues == 2
\* The model stops counting negotiate_features calls at this number.
MaxNegotiate == 2
\* The per-queue maximum size the backend advertises in the model.
QueueSizeMax == 4
\* The model stops counting read_config and write_config calls at this number.
MaxConfig == 2

\* ------------------------------------------------------ program constants

VIRTIO_MMIO_MAGIC_VALUE == 0
VIRTIO_MMIO_VERSION == 4
VIRTIO_MMIO_DEVICE_ID == 8
VIRTIO_MMIO_VENDOR_ID == 12
VIRTIO_MMIO_DEVICE_FEATURES == 16
VIRTIO_MMIO_DEVICE_FEATURES_SEL == 20
VIRTIO_MMIO_DRIVER_FEATURES == 32
VIRTIO_MMIO_DRIVER_FEATURES_SEL == 36
VIRTIO_MMIO_QUEUE_SEL == 48
VIRTIO_MMIO_QUEUE_NUM_MAX == 52
VIRTIO_MMIO_QUEUE_NUM == 56
VIRTIO_MMIO_QUEUE_READY == 68
VIRTIO_MMIO_QUEUE_NOTIFY == 80
VIRTIO_MMIO_INTERRUPT_STATUS == 96
VIRTIO_MMIO_INTERRUPT_ACK == 100
VIRTIO_MMIO_STATUS == 112
VIRTIO_MMIO_QUEUE_DESC_LOW == 128
VIRTIO_MMIO_QUEUE_DESC_HIGH == 132
VIRTIO_MMIO_QUEUE_AVAIL_LOW == 144
VIRTIO_MMIO_QUEUE_AVAIL_HIGH == 148
VIRTIO_MMIO_QUEUE_USED_LOW == 160
VIRTIO_MMIO_QUEUE_USED_HIGH == 164
VIRTIO_MMIO_CONFIG_GENERATION == 252
VHOST_USER_CONFIG_OFFSET == 256
VIRTIO_MMIO_INT_VRING == 1
VIRTIO_F_VERSION_1 == 32
VIRTIO_F_IOMMU_PLATFORM == 33
\* virtio_queue::MAX_QUEUE_SIZE, the largest size Queue::new accepts.
MAX_QUEUE_SIZE == 32768
\* The descriptor-table low word a fresh VirtQueue record is given.
DESC_LO_INIT == 77
\* 0x4d564b4c
VENDOR_ID == 1297500492
\* The MMIO base address of the Device (0xa003e00 in the documented example).
DEV_ADDR == 167788032
\* The guest RAM base and length of the documented example.
RAM_ADDR == 1610612736
RAM_SIZE == 16777216

BAO_IO_WRITE == "WRITE"
BAO_IO_READ == "READ"
BAO_IO_ASK == "ASK"
BAO_IOEVENTFD_FLAG_DATAMATCH == "DATAMATCH"
BAO_IOEVENTFD_FLAG_DEASSIGN == "DEASSIGN"

\* ---------------------------------------------------------- bit helpers

\* The bit positions set in the natural number x (x < 2^31).
Bits(x) == {i \in 0..30 : (x \div (2 ^ i)) % 2 = 1}

RECURSIVE FromBits(_)
\* The natural number whose set bits are S (S within 0..30).
FromBits(S) ==
  IF S = {} THEN 0
  ELSE LET b == CHOOSE x \in S : TRUE IN (2 ^ b) + FromBits(S \ {b})

\* u64 << a for a < 64: bits shifted past position 63 are lost.
Shl64(S, a) == {b + a : b \in S} \cap (0..63)

\* (u64 >> a) as u32: the 32-bit window that starts at bit a.
Shr64AsU32(S, a) == {b - a : b \in {x \in S : x >= a}} \cap (0..31)

\* u32::from_le_bytes
from_le_bytes(b) == b[1] + 256 * b[2] + 65536 * b[3] + 16777216 * b[4]

\* ------------------------------------------------------------- the state

VARIABLES
  phase,      \* "none": not constructed, "live", "dropped": BaoMmio destroyed
  mmio,       \* the BaoMmio struct
  gdev,       \* the vhost-user client (Generic) as the frontend has called it
  kernel,     \* the Bao kernel module: installed ioeventfd routes, requests seen
  poisoned,   \* BaoDevice::mmio's mutex is poisoned (a handler panicked)
  last,       \* the last trapped access handled by io_event, and its result
  store,      \* the last guest store to QUEUE_NOTIFY as the kernel routed it
  obs,        \* observers of the guest's history, used by the properties
  ranges,     \* the guest-memory range under test: start address, size, file offset
  gm,         \* the bytes of the anonymous guest memory over that range
  f,          \* the bytes of the file behind the file-backed guest memory
  rw,         \* the last write and read-back made on both memories
  DEVICES,    \* the device-class registry: compatible string -> DeviceInfo
  devices_lock,  \* the thread holding the registry's mutex guard, 0 when free
  threads,    \* each thread's position in BaoDevice::new and its locals
  devs,       \* the BaoDevices that BaoDevice::new has returned, in order
  sockets,    \* the vhost-user sockets Generic::new was called with, in order
  irq,        \* the kernel's irqfd side: eventfds made, IRQFD requests seen
  guests,     \* BaoFrontend::guests, the vector of FrontendGuests
  guests_poisoned,  \* the mutex around that vector is poisoned
  workers,    \* each configuration worker's position and remaining devices
  fds,        \* the descriptors on /dev/bao that are open in the process
  mutexes,    \* the Device's mutexes and the registry's: the thread holding each
  tasks,      \* each thread's operation on the Device and the guards it holds
  serial      \* the engine as the accesses make it when handled one at a time

\* The guest memories of the region tests.
memVars == <<ranges, gm, f, rw>>

\* The device-class registry and the Devices built against it.
deviceVars == <<DEVICES, devices_lock, threads, devs, sockets, irq>>

\* The Frontend: its Guests and workers.
frontendVars == <<guests, guests_poisoned, workers, fds>>

\* The threads working on one Device and the mutexes they take.
lockVars == <<mutexes, tasks, serial>>

\* What lies outside the Device's MMIO engine.
outside == <<memVars, deviceVars, frontendVars, lockVars>>

vars == <<phase, mmio, gdev, kernel, poisoned, last, store, obs, memVars,
          deviceVars, frontendVars, lockVars>>

\* ----------------------------------------------------------- results

NoErr == [name |-> "", dir |-> "", num |-> 0]
ResOk(v) == [kind |-> "ok", err |-> NoErr, value |-> v]
ResErr(name, dir, num, v) ==
  [kind |-> "err", err |-> [name |-> name, dir |-> dir, num |-> num], value |-> v]
ResPanic(v) == [kind |-> "panic", err |-> NoErr, value |-> v]

Out(m, g, res) == [m |-> m, g |-> g, res |-> res]

\* ------------------------------------------------- the Bao kernel module

\* An eventfd file descriptor: the eventfd object it refers to (the kick eventfd
\* of queue obj) and whether it is the descriptor EventFd::new returned or one
\* made later by try_clone (dup gives a different descriptor number for the same
\* object).
Fd(obj, dup) == [obj |-> obj, dup |-> dup]

BaoIoEventFd(fd, flags, addr, len, data) ==
  [fd |-> fd, flags |-> flags, addr |-> addr, len |-> len, reserved |-> 0,
   data |-> data]

\* The routes of kernel state k that a DEASSIGN request ev names: the kernel
\* resolves ev.fd to its eventfd object and compares address, length and data.
MatchingRoutes(k, ev) ==
  {r \in k.routes : r.efd = ev.fd.obj /\ r.addr = ev.addr /\ r.len = ev.len
                    /\ r.data = ev.data}

\* BaoDeviceModel::create_ioeventfd: the IOEVENTFD ioctl.  An ASSIGN installs
\* a route unless the kernel refuses it (fails); a DEASSIGN removes the route
\* it names and fails when there is none.  The request is logged either way.
create_ioeventfd(k, ev, fails) ==
  LET ok == IF ev.flags = BAO_IOEVENTFD_FLAG_DEASSIGN
            THEN MatchingRoutes(k, ev) # {}
            ELSE ~fails
      routes == IF ~ok THEN k.routes
                ELSE IF ev.flags = BAO_IOEVENTFD_FLAG_DEASSIGN
                     THEN k.routes \ MatchingRoutes(k, ev)
                     ELSE k.routes \cup {[efd |-> ev.fd.obj, addr |-> ev.addr,
                                          len |-> ev.len, data |-> ev.data,
                                          datamatch |->
                                            ev.flags = BAO_IOEVENTFD_FLAG_DATAMATCH]}
  IN [k |-> [routes |-> routes,
             log |-> Append(k.log, [ev |-> ev, ok |-> ok])],
      ok |-> ok]

\* A guest store of value v, `len` bytes wide, at guest address a: the eventfds
\* the installed routes signal, one entry per route that matches.
RoutedTo(k, a, len, v) ==
  {r \in k.routes : r.addr = a /\ r.len = len /\ (r.datamatch => r.data = v)}

\* ---------------------------------------------------- BaoMmio::new, Drop

VirtQueue(size_max, index) ==
  [ready |-> 0, size |-> 0, size_max |-> size_max, desc_lo |-> DESC_LO_INIT,
   desc_hi |-> 0, avail_lo |-> 0, avail_hi |-> 0, used_lo |-> 0, used_hi |-> 0,
   kick |-> Fd(index, FALSE)]

\* The struct literal of BaoMmio::new, before any virtqueue is created.
NewMmio(sizes, addr) ==
  [addr |-> addr, magic |-> <<118, 105, 114, 116>>, version |-> 2,
   vendor_id |-> VENDOR_ID, status |-> 0, queue_sel |-> 0,
   device_features_sel |-> 0, driver_features |-> {}, driver_features_sel |-> 0,
   interrupt_state |-> {}, queues_count |-> Len(sizes), queues |-> <<>>,
   vq |-> <<>>, regions |-> <<>>]

\* A construction loop that asks for the same datamatch value for every queue.
AssignRequest_data0(m, kick, index) ==
  BaoIoEventFd(kick, BAO_IOEVENTFD_FLAG_DATAMATCH,
               m.addr + VIRTIO_MMIO_QUEUE_NOTIFY, 4, 0)

\* The ioeventfd request of the construction loop for queue `index`.
AssignRequest(m, kick, index) ==
  BaoIoEventFd(kick, BAO_IOEVENTFD_FLAG_DATAMATCH,
               m.addr + VIRTIO_MMIO_QUEUE_NOTIFY, 4, index)

RECURSIVE CreateVirtqueues(_, _, _, _, _)
\* The loop of BaoMmio::new over sizes.iter().enumerate(), from `index` on.
\* The ASSIGN for queue failAt is the one the kernel refuses (none when failAt
\* is Len(sizes)); the loop returns at the first failure, before the push.
CreateVirtqueues(m, k, sizes, index, failAt) ==
  IF index = Len(sizes) THEN [m |-> m, k |-> k, ok |-> TRUE]
  ELSE LET kick == Fd(index, FALSE)
           r == create_ioeventfd(k, AssignRequest(m, kick, index), index = failAt)
       IN IF ~r.ok THEN [m |-> m, k |-> r.k, ok |-> FALSE]
          ELSE CreateVirtqueues(
                 [m EXCEPT !.vq = Append(@, VirtQueue(sizes[index + 1], index))],
                 r.k, sizes, index + 1, failAt)

\* BaoMmio::map_region: MmapRegion::build over the file from offset 0 with
\* length offset + size, placed at guest address addr.  mapres is what the
\* operating system answers: "ok", "err" (the mmap fails) or "panic" (the file
\* cannot be opened and open(path).unwrap() panics).
map_region(m, addr, path, offset, size, mapres) ==
  IF mapres = "ok"
  THEN [m |-> [m EXCEPT !.regions =
                 Append(@, [guest_addr |-> addr, path |-> path, file_offset |-> 0,
                            len |-> offset + size])],
        ok |-> TRUE]
  ELSE [m |-> m, ok |-> FALSE]

\* A Drop that names datamatch value 0 for every queue.
DeassignRequest_data0(m, vqrec, index) ==
  BaoIoEventFd(Fd(vqrec.kick.obj, TRUE), BAO_IOEVENTFD_FLAG_DEASSIGN,
               m.addr + VIRTIO_MMIO_QUEUE_NOTIFY, 4, 0)

\* The ioeventfd request of Drop for queue `index`: the descriptor is a fresh
\* clone of the kick eventfd.
DeassignRequest(m, vqrec, index) ==
  BaoIoEventFd(Fd(vqrec.kick.obj, TRUE), BAO_IOEVENTFD_FLAG_DEASSIGN,
               m.addr + VIRTIO_MMIO_QUEUE_NOTIFY, 4, index)

RECURSIVE DropLoop(_, _, _)
\* impl Drop for BaoMmio, from `index` on: a DEASSIGN per virtqueue record; a
\* failing ioctl panics (unwrap) and ends the loop.
DropLoop(m, k, index) ==
  IF index = Len(m.vq) THEN k
  ELSE LET r == create_ioeventfd(k, DeassignRequest(m, m.vq[index + 1], index), FALSE)
       IN IF ~r.ok THEN r.k ELSE DropLoop(m, r.k, index + 1)

drop(m, k) == DropLoop(m, k, 0)

\* BaoMmio::new: the virtqueue loop, then map_region.  On either failure the
\* partly built engine is dropped before new returns, which runs Drop.
new(sizes, k, addr, ram_addr, ram_size, failAt, mapres) ==
  LET c == CreateVirtqueues(NewMmio(sizes, addr), k, sizes, 0, failAt)
      r == map_region(c.m, 0, "/dev/mem", ram_addr, ram_size, mapres)
  IN IF ~c.ok THEN [m |-> c.m, k |-> drop(c.m, c.k), ok |-> FALSE]
     ELSE IF ~r.ok THEN [m |-> r.m, k |-> drop(r.m, c.k), ok |-> FALSE]
     ELSE [m |-> r.m, k |-> c.k, ok |-> TRUE]

\* ------------------------------------------------------------ virtqueues

\* Queue::new(max_size): Err(InvalidMaxSize) unless max_size is a power of two
\* in 1..MAX_QUEUE_SIZE.
QueueNewOk(max_size) ==
  /\ max_size # 0
  /\ max_size <= MAX_QUEUE_SIZE
  /\ \E i \in 0..15 : max_size = 2 ^ i

\* Queue::set_*_address(Some(low), Some(high)): the address is taken unless it
\* breaks the ring's alignment (16 bytes for the descriptor table, 2 for the
\* available ring, 4 for the used ring), in which case the queue keeps the
\* address it had (0 in a new queue).
SetRingAddress(lo, hi, align) ==
  IF lo % align = 0 THEN [lo |-> lo, hi |-> hi] ELSE [lo |-> 0, hi |-> 0]

\* BaoMmio::init_vq: builds the Queue of the selected virtqueue from its size
\* and half-registers, marks it ready and pushes (queue_sel, queue, kick clone)
\* onto the pending list.  Queue::new(..).unwrap() panics on a size it refuses.
init_vq(m) ==
  LET vq == m.vq[m.queue_sel + 1]
      vq_size == vq.size % 65536
      queue == [size |-> vq_size,
                desc |-> SetRingAddress(vq.desc_lo, vq.desc_hi, 16),
                avail |-> SetRingAddress(vq.avail_lo, vq.avail_hi, 2),
                used |-> SetRingAddress(vq.used_lo, vq.used_hi, 4),
                next_avail |-> 0]
  IN IF ~QueueNewOk(vq_size) THEN [m |-> m, ok |-> FALSE]
     ELSE [m |-> [m EXCEPT !.vq[m.queue_sel + 1].ready = 1,
                           !.queues = Append(@, [index |-> m.queue_sel,
                                                 queue |-> queue,
                                                 kick |-> Fd(vq.kick.obj, TRUE)])],
           ok |-> TRUE]

\* BaoMmio::destroy_vq
destroy_vq(m) == [m EXCEPT !.queues = <<>>]

\* A mem() that clones the regions instead of draining them.
mem_keeps_regions(m) == [m |-> m, mem |-> m.regions, ok |-> m.regions # <<>>]

\* BaoMmio::mem: drains the regions into a GuestMemoryMmap.  from_regions
\* refuses an empty list (NoMemoryRegion), and the unwrap then panics.
mem(m) ==
  [m |-> [m EXCEPT !.regions = <<>>], mem |-> m.regions, ok |-> m.regions # <<>>]

\* BaoMmio::activate_device: the arguments are evaluated first (mem(), then the
\* drained pending list), then activate is called on the backend, which
\* answers bk.  Each call is logged with its arguments and, for the
\* properties, the ready flags of the virtqueue records at the call.
activate_device(m, g, bk) ==
  LET r == mem(m)
      call == [mem |-> r.mem, queues |-> r.m.queues,
               ready |-> [i \in 1..Len(m.vq) |-> m.vq[i].ready]]
  IN IF ~r.ok THEN Out(r.m, g, ResPanic(0))
     ELSE Out([r.m EXCEPT !.queues = <<>>],
              [g EXCEPT !.activations = Append(@, call)],
              IF bk = "ok" THEN ResOk(0)
              ELSE ResErr("VhostFrontendActivateError", "", 0, 0))

\* --------------------------------------------------- the register decoder

\* BaoMmio::io_read
io_read(m, g, req, offset) ==
  IF ~(m.queue_sel < Len(m.vq)) THEN Out(m, g, ResPanic(req.value))
  ELSE
  LET vq == m.vq[m.queue_sel + 1]
      Val(v) == Out(m, g, ResOk(v))
  IN CASE offset = VIRTIO_MMIO_MAGIC_VALUE -> Val(from_le_bytes(m.magic))
       [] offset = VIRTIO_MMIO_VERSION -> Val(m.version)
       [] offset = VIRTIO_MMIO_DEVICE_ID -> Val(g.device_type)
       [] offset = VIRTIO_MMIO_VENDOR_ID -> Val(m.vendor_id)
       [] offset = VIRTIO_MMIO_STATUS -> Val(m.status)
       [] offset = VIRTIO_MMIO_INTERRUPT_STATUS ->
            Val(FromBits(m.interrupt_state \cup Bits(VIRTIO_MMIO_INT_VRING)))
       [] offset = VIRTIO_MMIO_QUEUE_NUM_MAX -> Val(vq.size_max)
       [] offset = VIRTIO_MMIO_DEVICE_FEATURES ->
            IF m.device_features_sel > 1
            THEN Out(m, g, ResErr("InvalidFeatureSel", "", m.device_features_sel,
                                  req.value))
            ELSE Val(FromBits(Shr64AsU32(
                       g.device_features
                         \cup {VIRTIO_F_VERSION_1, VIRTIO_F_IOMMU_PLATFORM},
                       32 * m.device_features_sel)))
       [] offset = VIRTIO_MMIO_QUEUE_READY -> Val(vq.ready)
       [] offset = VIRTIO_MMIO_QUEUE_DESC_LOW -> Val(vq.desc_lo)
       [] offset = VIRTIO_MMIO_QUEUE_DESC_HIGH -> Val(vq.desc_hi)
       [] offset = VIRTIO_MMIO_QUEUE_USED_LOW -> Val(vq.used_lo)
       [] offset = VIRTIO_MMIO_QUEUE_USED_HIGH -> Val(vq.used_hi)
       [] offset = VIRTIO_MMIO_QUEUE_AVAIL_LOW -> Val(vq.avail_lo)
       [] offset = VIRTIO_MMIO_QUEUE_AVAIL_HIGH -> Val(vq.avail_hi)
       [] offset = VIRTIO_MMIO_CONFIG_GENERATION -> Val(0)
       [] OTHER -> Out(m, g, ResErr("InvalidMmioAddr", "read", offset, req.value))

\* The DRIVER_FEATURES arm of io_write.  The shift amount 32 * sel overflows
\* the u64 shift for sel >= 2: a build with overflow checks ("debug") panics
\* there, a build without ("release") shifts by the amount modulo 64.
write_driver_features(m, g, req, build, bk) ==
  LET amount == 32 * m.driver_features_sel
      shift == IF amount < 64 THEN amount ELSE amount % 64
      features == m.driver_features \cup Shl64(Bits(req.value), shift)
      m1 == [m EXCEPT !.driver_features = features]
  IN IF amount >= 64 /\ build = "debug" THEN Out(m, g, ResPanic(req.value))
     ELSE IF m.driver_features_sel = 1
     THEN IF VIRTIO_F_VERSION_1 \notin features
          THEN Out(m1, g, ResErr("MmioLegacyNotSupported", "", 0, req.value))
          ELSE IF VIRTIO_F_IOMMU_PLATFORM \notin features
          THEN Out(m1, g, ResErr("IommuPlatformNotSupported", "", 0, req.value))
          ELSE Out(m1, g, ResOk(req.value))
     ELSE Out(m1,
              [g EXCEPT !.negCount = @ + 1,
                        !.negLast = [features |-> features, protocol |-> {}]],
              IF bk = "ok" THEN ResOk(req.value)
              ELSE ResErr("VhostFrontendError", "", 0, req.value))

\* A QUEUE_READY arm that activates as soon as one queue is pending.
write_queue_ready_early(m, g, req, bk) ==
  IF req.value = 1 /\ req.value_hi = 0
  THEN LET r == init_vq(m)
       IN IF ~r.ok THEN Out(m, g, ResPanic(req.value))
          ELSE LET a == activate_device(r.m, g, bk)
               IN Out(a.m, a.g, [a.res EXCEPT !.value = req.value])
  ELSE Out(destroy_vq(m), g, ResOk(req.value))

\* The QUEUE_READY arm of io_write.
write_queue_ready(m, g, req, bk) ==
  IF req.value = 1 /\ req.value_hi = 0
  THEN LET r == init_vq(m)
       IN IF ~r.ok THEN Out(m, g, ResPanic(req.value))
          ELSE IF Len(r.m.queues) = r.m.queues_count
          THEN LET a == activate_device(r.m, g, bk)
               IN Out(a.m, a.g, [a.res EXCEPT !.value = req.value])
          ELSE Out(r.m, g, ResOk(req.value))
  ELSE Out(destroy_vq(m), g, ResOk(req.value))

\* BaoMmio::io_write.  The registers take `req.value as u32`, the low word of
\* the request's u64 (req.value, without req.value_hi).
io_write(m, g, req, offset, build, bk) ==
  IF ~(m.queue_sel < Len(m.vq)) THEN Out(m, g, ResPanic(req.value))
  ELSE
  LET k == m.queue_sel + 1
      Done(m1) == Out(m1, g, ResOk(req.value))
  IN CASE offset = VIRTIO_MMIO_DEVICE_FEATURES_SEL ->
            Done([m EXCEPT !.device_features_sel = req.value])
       [] offset = VIRTIO_MMIO_DRIVER_FEATURES_SEL ->
            Done([m EXCEPT !.driver_features_sel = req.value])
       [] offset = VIRTIO_MMIO_QUEUE_SEL -> Done([m EXCEPT !.queue_sel = req.value])
       [] offset = VIRTIO_MMIO_STATUS -> Done([m EXCEPT !.status = req.value])
       [] offset = VIRTIO_MMIO_QUEUE_NUM -> Done([m EXCEPT !.vq[k].size = req.value])
       [] offset = VIRTIO_MMIO_QUEUE_DESC_LOW ->
            Done([m EXCEPT !.vq[k].desc_lo = req.value])
       [] offset = VIRTIO_MMIO_QUEUE_DESC_HIGH ->
            Done([m EXCEPT !.vq[k].desc_hi = req.value])
       [] offset = VIRTIO_MMIO_QUEUE_USED_LOW ->
            Done([m EXCEPT !.vq[k].used_lo = req.value])
       [] offset = VIRTIO_MMIO_QUEUE_USED_HIGH ->
            Done([m EXCEPT !.vq[k].used_hi = req.value])
       [] offset = VIRTIO_MMIO_QUEUE_AVAIL_LOW ->
            Done([m EXCEPT !.vq[k].avail_lo = req.value])
       [] offset = VIRTIO_MMIO_QUEUE_AVAIL_HIGH ->
            Done([m EXCEPT !.vq[k].avail_hi = req.value])
       [] offset = VIRTIO_MMIO_INTERRUPT_ACK ->
            Done([m EXCEPT !.interrupt_state = @ \ Bits(req.value)])
       [] offset = VIRTIO_MMIO_DRIVER_FEATURES ->
            write_driver_features(m, g, req, build, bk)
       [] offset = VIRTIO_MMIO_QUEUE_READY -> write_queue_ready(m, g, req, bk)
       [] offset = VIRTIO_MMIO_QUEUE_NOTIFY -> Done(m)
       [] OTHER -> Out(m, g, ResErr("InvalidMmioAddr", "write", offset, req.value))

\* u64::to_ne_bytes()[0..n] on a little-endian target, for n <= 4 (the model's
\* values are below 2^31).
to_ne_bytes(v, n) == [i \in 1..n |-> (v \div (256 ^ (i - 1))) % 256]

RECURSIVE from_ne_bytes(_)
\* The u64 whose low bytes are b and whose other bytes are zero.
from_ne_bytes(b) == IF b = <<>> THEN 0 ELSE b[1] + 256 * from_ne_bytes(Tail(b))

\* Generic::read_config(offset, data): the backend fills the buffer with the
\* bytes of its configuration space from offset on; bytes past its end stay
\* as they were.
read_config(g, offset, data) ==
  [i \in 1..Len(data) |->
     IF offset + i <= Len(g.config) THEN g.config[offset + i] ELSE data[i]]

\* A config_read that hands the request's bytes to write_config.
config_read_writes(m, g, req, offset) ==
  IF req.access_width > 8 THEN Out(m, g, ResPanic(req.value))
  ELSE Out(m, [g EXCEPT !.cfgCount = @ + 1,
                        !.cfgLast = [call |-> "write_config", offset |-> offset,
                                     len |-> req.access_width,
                                     data |-> to_ne_bytes(req.value,
                                                          req.access_width)]],
           ResOk(req.value))

\* BaoMmio::config_read: read_config fills the low access_width bytes of a
\* zeroed u64 from the backend's configuration space; slicing more than the
\* 8 bytes of a u64 panics.
config_read(m, g, req, offset) ==
  IF req.access_width > 8 THEN Out(m, g, ResPanic(req.value))
  ELSE LET data == read_config(g, offset, to_ne_bytes(0, req.access_width))
       IN Out(m, [g EXCEPT !.cfgCount = @ + 1,
                           !.cfgLast = [call |-> "read_config", offset |-> offset,
                                        len |-> req.access_width, data |-> data]],
              ResOk(from_ne_bytes(data)))

\* BaoMmio::config_write: write_config is given the low access_width bytes of
\* req.value.
config_write(m, g, req, offset) ==
  IF req.access_width > 8 THEN Out(m, g, ResPanic(req.value))
  ELSE Out(m, [g EXCEPT !.cfgCount = @ + 1,
                        !.cfgLast = [call |-> "write_config", offset |-> offset,
                                     len |-> req.access_width,
                                     data |-> to_ne_bytes(req.value,
                                                          req.access_width)]],
           ResOk(req.value))

\* BaoMmio::io_event
mmio_io_event(m, g, req, build, bk) ==
  IF req.reg_off >= VHOST_USER_CONFIG_OFFSET
  THEN LET offset == req.reg_off - VHOST_USER_CONFIG_OFFSET
       IN CASE req.op = BAO_IO_READ -> config_read(m, g, req, offset)
            [] req.op = BAO_IO_WRITE -> config_write(m, g, req, offset)
            [] OTHER -> Out(m, g, ResErr("InvalidMmioDir", req.op, 0, req.value))
  ELSE CASE req.op = BAO_IO_READ -> io_read(m, g, req, req.reg_off)
         [] req.op = BAO_IO_WRITE -> io_write(m, g, req, req.reg_off, build, bk)
         [] OTHER -> Out(m, g, ResErr("InvalidMmioDir", req.op, 0, req.value))

\* BaoDevice::io_event: the engine's handler under the engine's mutex; locking
\* a poisoned mutex panics (lock().unwrap()).
io_event(m, g, p, req, build, bk) ==
  IF p THEN Out(m, g, ResPanic(req.value)) ELSE mmio_io_event(m, g, req, build, bk)

\* --------------------------------------------------------- the mutexes

\* The mutexes a thread working on a Device takes: the registry DEVICES, the
\* Guest's DeviceModel (guest.dm), and the Device's engine (mmio), vhost-user
\* client (gdev) and interrupt slot.
Mutexes == {"registry", "dm", "mmio", "gdev", "interrupt"}

\* Mutex::new: no thread holds the guard, and the mutex is not poisoned.
Mutex_new == [holder |-> 0, poisoned |-> FALSE]

\* --------------------------------------------- the device-class registry

BAO_IRQFD_FLAG_ASSIGN == "ASSIGN"
BAO_IRQFD_FLAG_DEASSIGN == "DEASSIGN"

\* A compatible string that leaves the id out.
compatible_no_id(id) == "virtio,device"

\* format!("virtio,device{}", id)
compatible(id) == "virtio,device" \o ToString(id)

\* DeviceInfo::new
DeviceInfo_new(name, id) ==
  [name |-> name, compatible |-> compatible(id), index |-> 0]

\* Two of the supported device classes, as (name, id).
SUPPORTED_DEVICES == {<<"net", 1>>, <<"rng", 4>>}

\* The registry as lazy_static builds it: one DeviceInfo per supported class,
\* keyed by its compatible string.
DEVICES_new ==
  LET infos == {DeviceInfo_new(e[1], e[2]) : e \in SUPPORTED_DEVICES}
  IN [c \in {d.compatible : d \in infos} |->
        CHOOSE d \in infos : d.compatible = c]

\* An index() that hands out the counter without advancing it.
DeviceInfo_index_stuck(info) == [info |-> info, str |-> ToString(info.index)]

\* DeviceInfo::index: advances the counter and returns its previous value as
\* a string.
DeviceInfo_index(info) ==
  [info |-> [info EXCEPT !.index = @ + 1], str |-> ToString((info.index + 1) - 1)]

\* ------------------------------------------------ the Device's interrupt

BaoIrqFd(fd, flags) == [fd |-> fd, flags |-> flags]

\* BaoDeviceModel::create_irqfd: the IRQFD ioctl on the per-guest descriptor;
\* the kernel refuses it when `fails`.
create_irqfd(q, irqfd, fails) ==
  [q |-> [q EXCEPT !.log = Append(@, irqfd)], ok |-> ~fails]

\* BaoInterrupt::new: a new eventfd, of which the Interrupt keeps a clone, and
\* the ASSIGN request for the descriptor it keeps.
BaoInterrupt_new(q, fails) ==
  LET call == Fd(q.eventfds + 1, TRUE)
      r == create_irqfd([q EXCEPT !.eventfds = @ + 1],
                        BaoIrqFd(call, BAO_IRQFD_FLAG_ASSIGN), fails)
  IN [q |-> r.q, int |-> [call |-> call], ok |-> r.ok]

\* BaoInterrupt::exit: the DEASSIGN request for the descriptor it keeps.
BaoInterrupt_exit(q, int, fails) ==
  create_irqfd(q, BaoIrqFd(int.call, BAO_IRQFD_FLAG_DEASSIGN), fails)

\* An Option::take that leaves the value in place.
take_keeps(slot) == [value |-> slot, slot |-> slot]

\* Option::take on BaoDevice::interrupt (an Option is a sequence of at most
\* one element).
take(slot) == [value |-> slot, slot |-> <<>>]

\* The vhost-user client of a Device as far as its interrupt goes: the
\* interrupt handed over by activate, and the reset and shutdown calls made,
\* counted and in the order the client received them.
Client == [interrupt_cb |-> <<>>, resets |-> 0, shutdowns |-> 0, calls |-> <<>>]

\* VirtioDevice::reset gives the interrupt back, VirtioDevice::shutdown
\* follows.
reset(c) ==
  [c EXCEPT !.interrupt_cb = <<>>, !.resets = @ + 1, !.calls = Append(@, "reset")]
shutdown(c) == [c EXCEPT !.shutdowns = @ + 1, !.calls = Append(@, "shutdown")]

\* An exit() that resets and shuts the client down before it deassigns the
\* irqfd.
BaoDevice_exit_client_first(d, q, fails) ==
  IF d.interrupt_poisoned THEN [d |-> d, q |-> q, panic |-> TRUE]
  ELSE LET t == take(d.interrupt)
           d1 == [d EXCEPT !.interrupt = t.slot, !.gdev = shutdown(reset(@))]
       IN IF t.value = <<>> THEN [d |-> d1, q |-> q, panic |-> FALSE]
          ELSE LET r == BaoInterrupt_exit(q, t.value[1], fails)
               IN IF r.ok THEN [d |-> d1, q |-> r.q, panic |-> FALSE]
                  ELSE [d |-> [d1 EXCEPT !.interrupt_poisoned = TRUE],
                        q |-> r.q, panic |-> TRUE]

\* BaoDevice::exit.  The guard of the interrupt slot lives through the body
\* of the if-let: a DEASSIGN the kernel refuses makes unwrap panic with the
\* slot locked, which poisons it, and reset and shutdown are not reached; an
\* exit() finding the slot poisoned panics before it takes anything.
BaoDevice_exit(d, q, fails) ==
  IF d.interrupt_poisoned THEN [d |-> d, q |-> q, panic |-> TRUE]
  ELSE LET t == take(d.interrupt)
           d1 == [d EXCEPT !.interrupt = t.slot]
           down(x) == [x EXCEPT !.gdev = shutdown(reset(@))]
       IN IF t.value = <<>> THEN [d |-> down(d1), q |-> q, panic |-> FALSE]
          ELSE LET r == BaoInterrupt_exit(q, t.value[1], fails)
               IN IF r.ok THEN [d |-> down(d1), q |-> r.q, panic |-> FALSE]
                  ELSE [d |-> [d1 EXCEPT !.interrupt_poisoned = TRUE],
                        q |-> r.q, panic |-> TRUE]

\* No thread is in BaoDevice::new and nothing has been built.
NoThread == [pc |-> "idle", id |-> 0, guest |-> 0, addr |-> 0, socket |-> "",
             calls |-> 0, entry |-> <<>>, res |-> ResOk(0)]

NoDevices ==
  /\ DEVICES = DEVICES_new
  /\ devices_lock = 0
  /\ threads = <<>>
  /\ devs = <<>>
  /\ sockets = <<>>
  /\ irq = [eventfds |-> 0, log |-> <<>>]

\* No Frontend is running.
NoFrontend ==
  /\ guests = <<>>
  /\ guests_poisoned = FALSE
  /\ workers = <<>>
  /\ fds = [open |-> {}, destroys |-> <<>>]

\* No thread is working on the Device.
NoLocks ==
  /\ mutexes = [x \in Mutexes |-> Mutex_new]
  /\ tasks = <<>>
  /\ serial = <<>>

\* ------------------------------------------------------ the state machine

\* The backend behind the vhost-user client: what it advertises, and the calls
\* the frontend has made on it so far.
Backend(sizes) ==
  [device_type |-> 4, device_features |-> {0, 34}, queue_max_sizes |-> sizes,
   config |-> <<17, 34, 51, 68, 85, 102>>,
   negCount |-> 0, negLast |-> [features |-> {}, protocol |-> {}],
   activations |-> <<>>,
   cfgCount |-> 0,
   cfgLast |-> [call |-> "", offset |-> 0, len |-> 0, data |-> <<>>]]

Request(op, reg_off, value) ==
  [reg_off |-> reg_off, op |-> op, value |-> value, value_hi |-> 0,
   access_width |-> 4]

\* A trapped access that is access_width bytes wide.
RequestOfWidth(op, reg_off, value, access_width) ==
  [reg_off |-> reg_off, op |-> op, value |-> value, value_hi |-> 0,
   access_width |-> access_width]

\* A trapped access whose u64 value is value_hi * 2^32 + value.
Request64(op, reg_off, value_hi, value) ==
  [reg_off |-> reg_off, op |-> op, value |-> value, value_hi |-> value_hi,
   access_width |-> 4]

NoRequest == Request(BAO_IO_ASK, 0, 0)

NoStore == [value |-> 0, signalled |-> <<>>, trapped |-> FALSE, done |-> FALSE]

NoObs == [lacking |-> FALSE, featErr |-> FALSE, inOrder |-> 0]

NoRw == [addr |-> 0, buf |-> <<>>, written |-> <<0, 0>>, read |-> <<0, 0>>,
         bufs |-> <<<<>>, <<>>>>, done |-> FALSE]

\* No guest memory is under test.
NoMemory ==
  /\ ranges = [start_addr |-> 0, size |-> 0, file_offset |-> 0]
  /\ gm = <<>>
  /\ f = <<>>
  /\ rw = NoRw

\* The engine before BaoDevice::new, for a backend advertising n queues, n in N.
EngineInit(N) ==
  /\ phase = "none"
  /\ \E n \in N :
       /\ gdev = Backend([i \in 1..n |-> QueueSizeMax])
       /\ mmio = NewMmio([i \in 1..n |-> QueueSizeMax], DEV_ADDR)
  /\ kernel = [routes |-> {}, log |-> <<>>]
  /\ poisoned = FALSE
  /\ last = [req |-> NoRequest, res |-> ResOk(0)]
  /\ store = NoStore
  /\ obs = NoObs

\* The state before BaoDevice::new, for a backend advertising n queues, n in N.
InitWith(N) == EngineInit(N) /\ NoMemory /\ NoDevices /\ NoFrontend /\ NoLocks

Init == InitWith(1..MaxQueues)

\* What the observers record of a trapped access req that finds the engine m:
\*   lacking  the guest has written DRIVER_FEATURES under driver_features_sel = 1
\*            with a word lacking VERSION_1 or IOMMU_PLATFORM (bits 0, 1 of it);
\*   featErr  a DRIVER_FEATURES write has failed with MmioLegacyNotSupported or
\*            IommuPlatformNotSupported;
\*   inOrder  j >= 0 when the QUEUE_READY writes so far are exactly j writes of 1,
\*            the i-th of them made with queue i - 1 selected and with a size in
\*            its size register that a Queue can be built with; -1 once a
\*            QUEUE_READY write departed from that (a write of 0, another queue
\*            selected, a queue not configured, a write after the last queue)
\*            or the guest selected a queue the Device does not have.
Observe(o, m, req, res) ==
  LET isW(off) == req.op = BAO_IO_WRITE /\ req.reg_off = off
  IN [lacking |-> o.lacking
                   \/ (/\ isW(VIRTIO_MMIO_DRIVER_FEATURES)
                       /\ m.driver_features_sel = 1
                       /\ ~({0, 1} \subseteq Bits(req.value))),
      featErr |-> o.featErr
                   \/ (/\ isW(VIRTIO_MMIO_DRIVER_FEATURES)
                       /\ res.err.name \in {"MmioLegacyNotSupported",
                                            "IommuPlatformNotSupported"}),
      inOrder |-> IF isW(VIRTIO_MMIO_QUEUE_SEL)
                  THEN IF req.value < m.queues_count THEN o.inOrder ELSE -1
                  ELSE IF ~isW(VIRTIO_MMIO_QUEUE_READY) THEN o.inOrder
                  ELSE IF /\ o.inOrder >= 0
                          /\ o.inOrder < m.queues_count
                          /\ req.value = 1
                          /\ m.queue_sel = o.inOrder
                          /\ m.queue_sel < Len(m.vq)
                          /\ QueueNewOk(m.vq[m.queue_sel + 1].size % 65536)
                  THEN o.inOrder + 1
                  ELSE -1]

\* The effect of one trapped access on the state: BaoDevice::io_event runs the
\* handler; a panic poisons the engine's mutex.
Handle(req, build, bk) ==
  LET o == io_event(mmio, gdev, poisoned, req, build, bk)
  IN /\ o.g.negCount <= MaxNegotiate
     /\ o.g.cfgCount <= MaxConfig
     /\ mmio' = o.m
     /\ gdev' = o.g
     /\ poisoned' = (poisoned \/ o.res.kind = "panic")
     /\ last' = [req |-> req, res |-> o.res]
     /\ obs' = Observe(obs, mmio, req, o.res)

\* BaoDevice::new builds the engine: BaoMmio::new with whatever the kernel and
\* the operating system answer.
Construct ==
  /\ phase = "none"
  /\ \E failAt \in 0..Len(gdev.queue_max_sizes), mapres \in {"ok", "err", "panic"} :
       LET r == new(gdev.queue_max_sizes, kernel, DEV_ADDR, RAM_ADDR, RAM_SIZE,
                    failAt, mapres)
       IN /\ phase' = IF r.ok THEN "live" ELSE "dropped"
          /\ mmio' = r.m
          /\ kernel' = r.k
  /\ UNCHANGED <<gdev, poisoned, last, store, obs, outside>>

W(reg_off, values) == {Request(BAO_IO_WRITE, reg_off, v) : v \in values}
R(reg_off) == Request(BAO_IO_READ, reg_off, 0)

\* The builds the source can be compiled as; they differ where an arithmetic
\* overflow is reached, which only a DRIVER_FEATURES write can do.
Builds(req) ==
  IF req.op = BAO_IO_WRITE /\ req.reg_off = VIRTIO_MMIO_DRIVER_FEATURES
  THEN {"debug", "release"} ELSE {"release"}

\* What the backend may answer to the call a request leads to.
Answers(req) ==
  IF req.op = BAO_IO_WRITE
       /\ req.reg_off \in {VIRTIO_MMIO_DRIVER_FEATURES, VIRTIO_MMIO_QUEUE_READY}
  THEN {"ok", "err"} ELSE {"ok"}

\* The trapped accesses of a guest that brings its queues up: queue selection
\* (the value queues_count selects no queue), sizes (3 is no power of two)
\* and QUEUE_READY.
QueueRequests ==
  W(VIRTIO_MMIO_QUEUE_SEL, 0..mmio.queues_count)
    \cup W(VIRTIO_MMIO_QUEUE_NUM, {2, 3})
    \cup W(VIRTIO_MMIO_QUEUE_READY, {0, 1})

\* The trapped accesses of a guest that reads the device's features through
\* the selector window, negotiates its own and then readies its queue (the
\* value queues_count of QUEUE_SEL selects no queue).
FeatureRequests ==
  W(VIRTIO_MMIO_DEVICE_FEATURES_SEL, 0..2)
    \cup {R(VIRTIO_MMIO_DEVICE_FEATURES)}
    \cup W(VIRTIO_MMIO_DRIVER_FEATURES_SEL, 0..2)
    \cup W(VIRTIO_MMIO_DRIVER_FEATURES, {0, 1, 3})
    \cup W(VIRTIO_MMIO_QUEUE_SEL, 0..mmio.queues_count)
    \cup W(VIRTIO_MMIO_QUEUE_NUM, {2})
    \cup W(VIRTIO_MMIO_QUEUE_READY, {1})

\* A trapped guest access out of `requests`, dispatched to BaoDevice::io_event.
Trap(requests) ==
  /\ phase = "live"
  /\ \E req \in requests :
       \E build \in Builds(req), bk \in Answers(req) : Handle(req, build, bk)
  /\ UNCHANGED <<phase, kernel, store, outside>>

IoEvent == Trap(QueueRequests)

IoEventFeatures == Trap(FeatureRequests)

\* A guest 32-bit store of v to base + QUEUE_NOTIFY.  The kernel signals the
\* eventfd of every route that matches; a store no route matches is trapped
\* and reaches io_event as a QUEUE_NOTIFY write.
NotifyStore ==
  /\ phase = "live"
  /\ \E v \in 0..mmio.queues_count :
       LET hits == RoutedTo(kernel, DEV_ADDR + VIRTIO_MMIO_QUEUE_NOTIFY, 4, v)
           count == [e \in 1..mmio.queues_count |->
                       Cardinality({r \in hits : r.efd = e - 1})]
       IN /\ store' = [value |-> v, signalled |-> count, trapped |-> hits = {},
                       done |-> TRUE]
          /\ IF hits = {}
             THEN Handle(Request(BAO_IO_WRITE, VIRTIO_MMIO_QUEUE_NOTIFY, v),
                         "release", "ok")
             ELSE UNCHANGED <<mmio, gdev, poisoned, last, obs>>
  /\ UNCHANGED <<phase, kernel, outside>>

\* The engine is destroyed: impl Drop for BaoMmio.
DropMmio ==
  /\ phase = "live"
  /\ phase' = "dropped"
  /\ kernel' = drop(mmio, kernel)
  /\ UNCHANGED <<mmio, gdev, poisoned, last, store, obs, outside>>

\* The trapped accesses of a guest in the model of the engine's lifetime:
\* readying the queues, a read, and accesses the decoder refuses.
LifecycleRequests ==
  W(VIRTIO_MMIO_QUEUE_SEL, 0..(mmio.queues_count - 1))
    \cup W(VIRTIO_MMIO_QUEUE_NUM, {2})
    \cup W(VIRTIO_MMIO_QUEUE_READY, {1})
    \cup W(VIRTIO_MMIO_VERSION, {0})
    \cup {R(VIRTIO_MMIO_MAGIC_VALUE), Request(BAO_IO_ASK, VIRTIO_MMIO_STATUS, 0)}

IoEventLifecycle == Trap(LifecycleRequests)

Next == Construct \/ IoEvent

\* A guest bringing its queues up on a backend with 1..MaxQueues queues.
Spec == Init /\ [][Next]_vars

NextFeatures == Construct \/ IoEventFeatures

\* A guest negotiating features with a backend that has one queue.
SpecFeatures == InitWith({1}) /\ [][NextFeatures]_vars

NextLifecycle == Construct \/ IoEventLifecycle \/ NotifyStore \/ DropMmio

\* The engine from construction to destruction, with the kernel's routing of
\* guest stores to QUEUE_NOTIFY.
SpecLifecycle == Init /\ [][NextLifecycle]_vars

\* ------------------------------------------------------------ properties

\* The guest address of the QUEUE_NOTIFY register of the Device.
NotifyAddr == DEV_ADDR + VIRTIO_MMIO_QUEUE_NOTIFY

IsWrite(req, off) == req.op = BAO_IO_WRITE /\ req.reg_off = off
IsRead(req, off) == req.op = BAO_IO_READ /\ req.reg_off = off

\* C1: whatever the guest writes, QUEUE_READY writes after the activation
\* included, activate is invoked on the backend at most once in the lifetime of
\* the Device.
C1_ActivateAtMostOnce == Len(gdev.activations) <= 1

\* C1 witness: after the activation the guest has readied every queue again;
\* the write that filled the pending list reached activate_device a second
\* time, where mem() found no region left and panicked before the call.
C1_SecondAttemptReached ==
  /\ Len(gdev.activations) = 1
  /\ IsWrite(last.req, VIRTIO_MMIO_QUEUE_READY)
  /\ last.req.value = 1
  /\ last.res.kind = "panic"
  /\ mmio.queues_count = 2
  /\ Len(mmio.queues) = mmio.queues_count
  /\ mmio.regions = <<>>

\* C2: at every call of activate, the triples handed over carry pairwise
\* distinct indices that cover 0..queues_count-1, and every virtqueue record
\* has ready = 1 (a queue readied twice does not count as two queues).
C2_ActivateWithEveryQueueReady ==
  \A i \in 1..Len(gdev.activations) :
    LET a == gdev.activations[i]
        idx == [x \in 1..Len(a.queues) |-> a.queues[x].index]
    IN /\ Len(a.queues) = mmio.queues_count
       /\ \A x, y \in 1..Len(idx) : x # y => idx[x] # idx[y]
       /\ {idx[x] : x \in 1..Len(idx)} = 0..(mmio.queues_count - 1)
       /\ \A q \in 1..Len(a.ready) : a.ready[q] = 1

C4_NoNegotiateAfterLackingWord ==
  [][obs.lacking => gdev'.negCount = gdev.negCount]_vars

\* C5: negotiate_features is called only by a DRIVER_FEATURES write made under
\* driver_features_sel = 0, once per such write, with the 64-bit
\* driver_features word and no protocol feature.
C5_NegotiateOnlyUnderSelZero ==
  [][/\ gdev'.negCount # gdev.negCount =>
          /\ IsWrite(last'.req, VIRTIO_MMIO_DRIVER_FEATURES)
          /\ mmio.driver_features_sel = 0
          /\ gdev'.negCount = gdev.negCount + 1
          /\ gdev'.negLast = [features |-> mmio'.driver_features, protocol |-> {}]
     /\ (/\ phase = "live"
         /\ ~poisoned
         /\ IsWrite(last'.req, VIRTIO_MMIO_DRIVER_FEATURES)
         /\ mmio.driver_features_sel = 0) => gdev'.negCount = gdev.negCount + 1
    ]_vars

\* C6: once a DRIVER_FEATURES write has failed with MmioLegacyNotSupported or
\* IommuPlatformNotSupported, activate is never invoked and every later access
\* returns an error.
C6_RefusedFeaturesStayRefused ==
  [][obs.featErr =>
       /\ gdev'.activations = gdev.activations
       /\ last'.res.kind = "err"]_vars

\* C7: a read of DEVICE_FEATURES returns, for device_features_sel in {0, 1},
\* bits 32*sel .. 32*sel+31 of the backend's features with VERSION_1 and
\* IOMMU_PLATFORM added, and fails with InvalidFeatureSel(sel) for any other
\* selector.
C7_DeviceFeaturesWindow ==
  IsRead(last.req, VIRTIO_MMIO_DEVICE_FEATURES) =>
    LET sel == mmio.device_features_sel
        offered == gdev.device_features
                     \cup {VIRTIO_F_VERSION_1, VIRTIO_F_IOMMU_PLATFORM}
    IN IF sel \in {0, 1}
       THEN /\ last.res.kind = "ok"
            /\ Bits(last.res.value) = {b \in 0..31 : b + 32 * sel \in offered}
       ELSE /\ last.res.kind = "err"
            /\ last.res.err.name = "InvalidFeatureSel"
            /\ last.res.err.num = sel

\* C8: no trapped access makes the handler panic: io_event returns Ok or an
\* Error for every access, and the Device goes on handling accesses.
C8_HandlerNeverPanics == ~poisoned /\ last.res.kind # "panic"

C10_OneRoutePerQueue ==
  phase = "live" =>
    LET n == mmio.queues_count
    IN /\ kernel.routes =
            {[efd |-> k, addr |-> NotifyAddr, len |-> 4, data |-> k,
              datamatch |-> TRUE] : k \in 0..(n - 1)}
       /\ Cardinality(kernel.routes) = n
       /\ \A k \in 0..(n - 1) : mmio.vq[k + 1].kick = Fd(k, FALSE)
       /\ (store.done /\ store.value < n) =>
            /\ ~store.trapped
            /\ store.signalled =
                 [e \in 1..n |-> IF e = store.value + 1 THEN 1 ELSE 0]

\* C10 witness: the guest has notified queue 1 of a Device with two queues.
C10_QueueOneNotified ==
  /\ phase = "live"
  /\ mmio.queues_count = 2
  /\ store.done
  /\ store.value = 1
  /\ ~store.trapped
  /\ store.signalled = <<0, 1>>

\* ------------------------------------------------------------------ C18

\* C18: the guest-memory region built at construction maps /dev/mem from file
\* offset ram_addr with length ram_size at guest address 0, so that the memory
\* handed to the backend at activation covers the guest's RAM
\* [ram_addr, ram_addr + ram_size) and nothing outside it.
C18_RegionIsGuestRam ==
  LET IsGuestRam(r) == /\ r.guest_addr = 0
                       /\ r.path = "/dev/mem"
                       /\ r.file_offset = RAM_ADDR
                       /\ r.len = RAM_SIZE
  IN /\ phase = "live" => \A i \in 1..Len(mmio.regions) : IsGuestRam(mmio.regions[i])
     /\ \A a \in 1..Len(gdev.activations) :
          \A i \in 1..Len(gdev.activations[a].mem) :
            IsGuestRam(gdev.activations[a].mem[i])

\* ------------------------------------------------------------------ C17

\* The trapped accesses of a guest that probes the device's identity: reads
\* of MAGIC_VALUE and VERSION, writes to both, and the register writes in
\* between (the value queues_count of QUEUE_SEL selects no queue).
IdentityRequests ==
  {R(VIRTIO_MMIO_MAGIC_VALUE), R(VIRTIO_MMIO_VERSION)}
    \cup W(VIRTIO_MMIO_MAGIC_VALUE, {0})
    \cup W(VIRTIO_MMIO_VERSION, {1})
    \cup W(VIRTIO_MMIO_QUEUE_SEL, 0..mmio.queues_count)
    \cup W(VIRTIO_MMIO_QUEUE_NUM, {2})
    \cup W(VIRTIO_MMIO_STATUS, {0, 1})

IoEventIdentity == Trap(IdentityRequests)

NextIdentity == Construct \/ IoEventIdentity

\* A guest probing the identity registers of a Device.
SpecIdentity == Init /\ [][NextIdentity]_vars

\* C17: in every state guest accesses can reach, a read of MAGIC_VALUE returns
\* 0x74726976 and a read of VERSION returns 2, whatever the guest has written
\* before.
C17_MagicAndVersion ==
  /\ IsRead(last.req, VIRTIO_MMIO_MAGIC_VALUE) =>
       last.res.kind = "ok" /\ last.res.value = 1953655158
  /\ IsRead(last.req, VIRTIO_MMIO_VERSION) =>
       last.res.kind = "ok" /\ last.res.value = 2

\* ------------------------------------------------------------------ C19

\* The size of the guest-memory range under test (FILE_SIZE of the tests).
FILE_SIZE == 3
\* The longest prefix of sample_buf written in one call.
MaxBufLen == 3

sample_buf == <<1, 2, 3, 4, 5>>

\* The start addresses and file offsets of the tests: zero and non-zero.
GUEST_ADDR_INIT == {0, FILE_SIZE + 1}
FILE_OFFSET == {0, 2}

Min(a, b) == IF a < b THEN a ELSE b

Zeroes(n) == [i \in 1..n |-> 0]

\* The number of bytes an access of len bytes at guest address a transfers in
\* a region [start, start + size): what is left up to the region's end.
Count(start, size, len, a) == Min(len, start + size - a)

\* Bytes::write on a guest memory of one region whose bytes are bytes[base + 1
\* .. base + size] (base = 0 for anonymous memory, the file offset for a
\* file-backed one): Err(InvalidGuestAddress) outside the region, else the
\* bytes written and their number.
write(bytes, base, start, size, buf, a) ==
  IF ~(a >= start /\ a < start + size)
  THEN [bytes |-> bytes, ok |-> FALSE, n |-> 0]
  ELSE LET n == Count(start, size, Len(buf), a)
           at == base + (a - start)
       IN [bytes |-> [i \in 1..Len(bytes) |->
                        IF i > at /\ i <= at + n THEN buf[i - at] ELSE bytes[i]],
           ok |-> TRUE, n |-> n]

\* A read that takes the region to start at the beginning of the file.
read_offset0(bytes, base, start, size, len, a) ==
  IF ~(a >= start /\ a < start + size)
  THEN [buf |-> Zeroes(len), ok |-> FALSE, n |-> 0]
  ELSE LET n == Count(start, size, len, a)
       IN [buf |-> [i \in 1..len |-> IF i <= n THEN bytes[(a - start) + i] ELSE 0],
           ok |-> TRUE, n |-> n]

\* Bytes::read into a zeroed buffer of len bytes.
read(bytes, base, start, size, len, a) ==
  IF ~(a >= start /\ a < start + size)
  THEN [buf |-> Zeroes(len), ok |-> FALSE, n |-> 0]
  ELSE LET n == Count(start, size, len, a)
           at == base + (a - start)
       IN [buf |-> [i \in 1..len |-> IF i <= n THEN bytes[at + i] ELSE 0],
           ok |-> TRUE, n |-> n]

\* The tests' setup: a temporary file of FILE_OFFSET + FILE_SIZE zero bytes,
\* an anonymous guest memory (from_ranges) and a file-backed one
\* (from_ranges_with_files) over the same range.
InitMemory ==
  /\ EngineInit({1})
  /\ \E start \in GUEST_ADDR_INIT, off \in FILE_OFFSET :
       /\ ranges = [start_addr |-> start, size |-> FILE_SIZE, file_offset |-> off]
       /\ gm = Zeroes(FILE_SIZE)
       /\ f = Zeroes(off + FILE_SIZE)
  /\ rw = NoRw
  /\ NoDevices
  /\ NoFrontend
  /\ NoLocks

\* The tests' step on both memories: write a prefix of sample_buf at a guest
\* address (the address just past the region included), then read back as
\* many bytes into a zeroed buffer.
WriteAndRead ==
  /\ \E len \in 1..MaxBufLen, a \in ranges.start_addr..(ranges.start_addr + ranges.size) :
       LET buf == SubSeq(sample_buf, 1, len)
           s == ranges.start_addr
           w1 == write(gm, 0, s, ranges.size, buf, a)
           w2 == write(f, ranges.file_offset, s, ranges.size, buf, a)
           r1 == read(w1.bytes, 0, s, ranges.size, len, a)
           r2 == read(w2.bytes, ranges.file_offset, s, ranges.size, len, a)
       IN /\ gm' = w1.bytes
          /\ f' = w2.bytes
          /\ rw' = [addr |-> a, buf |-> buf, written |-> <<w1.n, w2.n>>,
                    read |-> <<r1.n, r2.n>>, bufs |-> <<r1.buf, r2.buf>>,
                    done |-> w1.ok /\ w2.ok /\ r1.ok /\ r2.ok]
  /\ UNCHANGED <<phase, mmio, gdev, kernel, poisoned, last, store, obs, ranges,
               deviceVars, frontendVars, lockVars>>

NextMemory == WriteAndRead

\* Writes and read-backs on an anonymous and a file-backed guest memory.
SpecMemory == InitMemory /\ [][NextMemory]_vars

Threads == {1, 2}
\* The BaoDevice::new calls made in all, and the exit() calls per Device.
MaxNew == 2
MaxExit == 2

\* The device ids asked for: two registered classes and an unknown one.
DeviceIds == {1, 4, 99}

socket_path == "/tmp/"

\* The BaoDevice record BaoDevice::new returns: its fields, and for the
\* properties the descriptor its Interrupt was created with and the number of
\* exit() calls made on it.
BaoDevice(th, m, g, int) ==
  [id |-> th.id, addr |-> th.addr, guest |-> th.guest, socket |-> th.socket,
   mmio |-> m, gdev |-> g, interrupt |-> <<int>>, interrupt_poisoned |-> FALSE,
   call |-> int.call, exits |-> 0]

InitDevice ==
  /\ EngineInit({1})
  /\ NoMemory
  /\ DEVICES = DEVICES_new
  /\ devices_lock = 0
  /\ threads = [t \in Threads |-> NoThread]
  /\ devs = <<>>
  /\ sockets = <<>>
  /\ irq = [eventfds |-> 0, log |-> <<>>]
  /\ NoFrontend
  /\ NoLocks

Calls == threads[1].calls + threads[2].calls

engineVars == <<phase, mmio, gdev, poisoned, last, store, obs>>

\* What the kernel and the registry look like when a call enters.
Entry == [DEVICES |-> DEVICES, sockets |-> Len(sockets),
          ioeventfds |-> Len(kernel.log), irqfds |-> Len(irq.log)]

\* BaoDevice::new, device.rs:149-153: the thread takes the registry's mutex
\* (it waits while another thread holds it) and formats nothing yet.
NewLock(t) ==
  /\ threads[t].pc = "idle"
  /\ devices_lock = 0
  /\ Calls < MaxNew
  /\ \E id \in DeviceIds :
       threads' = [threads EXCEPT ![t] =
                     [pc |-> "locked", id |-> id, guest |-> t,
                      addr |-> DEV_ADDR + 512 * Calls, socket |-> "",
                      calls |-> @.calls + 1, entry |-> <<Entry>>,
                      res |-> ResOk(0)]]
  /\ devices_lock' = t
  /\ UNCHANGED <<engineVars, kernel, memVars, lockVars, DEVICES, devs, sockets, irq,
                 frontendVars>>

\* device.rs:153-158: the lookup by compatible string; an absent class ends
\* the call with BaoDevNotSupported(compatible), the guard is dropped.
NewLookup(t) ==
  /\ threads[t].pc = "locked"
  /\ LET c == compatible(threads[t].id)
     IN IF c \in DOMAIN DEVICES
        THEN /\ threads' = [threads EXCEPT ![t].pc = "found"]
             /\ UNCHANGED devices_lock
        ELSE /\ threads' = [threads EXCEPT
                              ![t].pc = "idle",
                              ![t].res = ResErr("BaoDevNotSupported", c, 0, 0)]
             /\ devices_lock' = 0
  /\ UNCHANGED <<engineVars, kernel, memVars, lockVars, DEVICES, devs, sockets, irq,
                 frontendVars>>

\* device.rs:160-171: the vhost-user configuration of a Device of the class
\* registered under c: the socket path takes the class's next index.
VhostUserConfig(D, c, guest) ==
  LET i == DeviceInfo_index(D[c])
  IN [D |-> [D EXCEPT ![c] = i.info],
      cfg |-> [socket |-> socket_path \o D[c].name \o ".sock" \o i.str,
               name |-> D[c].name, index |-> i.str, guest |-> guest,
               activated |-> FALSE]]

\* device.rs:187-216: BaoMmio::new, the BaoDevice, BaoInterrupt::new, with the
\* kernel refusing the first IOEVENTFD request, the mmap or the IRQFD request,
\* or nothing.  When the Interrupt cannot be made the BaoDevice is dropped,
\* and its engine with it.  th holds the call's id, addr, guest and socket.
Build(k, q, th, failing) ==
  LET failAt == IF failing = "ioeventfd" THEN 0 ELSE 1
      mapres == IF failing = "mmap" THEN "err" ELSE "ok"
      r == new(<<QueueSizeMax>>, k, th.addr, RAM_ADDR, RAM_SIZE, failAt, mapres)
      i == BaoInterrupt_new(q, failing = "irqfd")
  IN IF ~r.ok
     THEN [k |-> r.k, q |-> q, dev |-> <<>>,
           res |-> ResErr(IF failAt = 0 THEN "BaoIoctlError"
                          ELSE "MmapGuestMemoryFailed", "", 0, 0)]
     ELSE IF ~i.ok
     THEN [k |-> drop(r.m, r.k), q |-> i.q, dev |-> <<>>,
           res |-> ResErr("BaoIoctlError", "", 0, 0)]
     ELSE [k |-> r.k, q |-> i.q, dev |-> <<BaoDevice(th, r.m, Client, i.int)>>,
           res |-> ResOk(0)]

\* What the kernel may refuse while a Device is built.
Failing == {"", "ioeventfd", "mmap", "irqfd"}

\* device.rs:160-185: the configuration is made, then Generic::new connects
\* to the backend, or fails to.
NewConnect(t) ==
  /\ threads[t].pc = "found"
  /\ LET v == VhostUserConfig(DEVICES, compatible(threads[t].id), threads[t].guest)
     IN /\ DEVICES' = v.D
        /\ sockets' = Append(sockets, v.cfg)
        /\ \E connected \in BOOLEAN :
             IF connected
             THEN /\ threads' = [threads EXCEPT ![t].pc = "connected",
                                                ![t].socket = v.cfg.socket]
                  /\ UNCHANGED devices_lock
             ELSE /\ threads' = [threads EXCEPT
                                   ![t].pc = "idle",
                                   ![t].res = ResErr("VhostFrontendError", "", 0, 0)]
                  /\ devices_lock' = 0
  /\ UNCHANGED <<engineVars, kernel, memVars, lockVars, devs, irq, frontendVars>>

\* device.rs:187-216: the rest of the construction; the guard is dropped at
\* the return.
NewFinish(t) ==
  /\ threads[t].pc = "connected"
  /\ \E failing \in Failing :
       LET b == Build(kernel, irq, threads[t], failing)
       IN /\ kernel' = b.k
          /\ irq' = b.q
          /\ devs' = devs \o b.dev
          /\ threads' = [threads EXCEPT ![t].pc = "idle", ![t].res = b.res]
  /\ devices_lock' = 0
  /\ UNCHANGED <<engineVars, memVars, lockVars, DEVICES, sockets, frontendVars>>

\* BaoDevice::exit on a Device that was built, any number of times.
Exit(k) ==
  /\ devs[k].exits < MaxExit
  /\ \E fails \in BOOLEAN :
       LET r == BaoDevice_exit(devs[k], irq, fails)
       IN /\ devs' = [devs EXCEPT ![k] = [r.d EXCEPT !.exits = @ + 1]]
          /\ irq' = r.q
  /\ UNCHANGED <<engineVars, kernel, memVars, lockVars, DEVICES, devices_lock, threads,
                 sockets, frontendVars>>

NextDevice ==
  \/ \E t \in Threads : NewLock(t)
  \/ \E t \in Threads : NewLookup(t)
  \/ \E t \in Threads : NewConnect(t)
  \/ \E t \in Threads : NewFinish(t)
  \/ \E k \in 1..Len(devs) : Exit(k)

\* Threads constructing Devices against the one registry, and exiting them.
SpecDevice == InitDevice /\ [][NextDevice]_vars

\* The IRQFD requests the kernel has seen for descriptor fd with `flags`, as
\* positions in its log.
IrqRequests(fd, flags) ==
  {i \in 1..Len(irq.log) : irq.log[i].fd = fd /\ irq.log[i].flags = flags}

\* ------------------------------------------------------------------ C11

\* C11: for every Device, irqfd ASSIGN for its call eventfd is issued exactly
\* once, at Interrupt creation, and irqfd DEASSIGN for the same descriptor
\* exactly once, by the first exit(): none before an exit(), no second one by
\* later exit() calls, and none before the ASSIGN.
C11_AssignOnceDeassignOnce ==
  \A k \in 1..Len(devs) :
    LET d == devs[k]
        assigns == IrqRequests(d.call, BAO_IRQFD_FLAG_ASSIGN)
        deassigns == IrqRequests(d.call, BAO_IRQFD_FLAG_DEASSIGN)
    IN /\ Cardinality(assigns) = 1
       /\ Cardinality(deassigns) = IF d.exits = 0 THEN 0 ELSE 1
       /\ \A i \in assigns, j \in deassigns : i < j

\* C11 witness: exit() has been called twice on a Device whose first exit()
\* deassigned the irqfd and went on to reset and shut down the client.
C11_ExitedTwice ==
  \E k \in 1..Len(devs) :
    /\ devs[k].exits = 2
    /\ devs[k].gdev.shutdowns = 2
    /\ Cardinality(IrqRequests(devs[k].call, BAO_IRQFD_FLAG_DEASSIGN)) = 1

\* ------------------------------------------------------------------ C13

\* C13: a BaoDevice::new call for an id that has no entry in the registry
\* returns BaoDevNotSupported("virtio,device<id>"), and at its return the
\* registry is as the call found it (no class's index advanced), no backend
\* connection has been opened and no ioeventfd or irqfd request issued.
C13_UnknownClassRefused ==
  [][\A t \in Threads :
       (/\ threads[t].pc # "idle"
        /\ threads'[t].pc = "idle"
        /\ threads[t].id \notin {e[2] : e \in SUPPORTED_DEVICES})
       => LET entry == threads[t].entry[1]
          IN /\ threads'[t].res =
                  ResErr("BaoDevNotSupported",
                         "virtio,device" \o ToString(threads[t].id), 0, 0)
             /\ DEVICES' = entry.DEVICES
             /\ Len(sockets') = entry.sockets
             /\ Len(kernel'.log) = entry.ioeventfds
             /\ \A i \in (entry.irqfds + 1)..Len(irq'.log) :
                  irq'.log[i].flags # BAO_IRQFD_FLAG_ASSIGN]_vars

\* C13 witness: a construction for the unknown id 99 has been refused after a
\* Device of a registered class was built.
C13_Id99Refused ==
  \E t \in Threads :
    /\ threads[t].pc = "idle"
    /\ threads[t].id = 99
    /\ threads[t].res.kind = "err"
    /\ threads[t].res.err.name = "BaoDevNotSupported"
    /\ Len(devs) = 1

\* ------------------------------------------------------------------ C15

\* C15: socket-path indices come from one counter per device class, shared by
\* all Guests and threads: the i-th construction of a class that passes the
\* registry lookup connects to {prefix}{name}.sock{i-1}, so the indices of a
\* class increase strictly in construction order, none is used twice, and
\* no two Devices share a socket path.
C15_IndexPerClass ==
  /\ \A i \in 1..Len(sockets) :
       LET earlier == {j \in 1..(i - 1) : sockets[j].name = sockets[i].name}
       IN /\ sockets[i].index = ToString(Cardinality(earlier))
          /\ sockets[i].socket =
               socket_path \o sockets[i].name \o ".sock"
                 \o ToString(Cardinality(earlier))
  /\ \A k, l \in 1..Len(devs) : k # l => devs[k].socket # devs[l].socket

\* C15 witness: two Devices of class rng, built by different threads for
\* different Guests, got sock0 and sock1.
C15_TwoOfOneClass ==
  /\ Len(devs) = 2
  /\ devs[1].id = 4 /\ devs[2].id = 4
  /\ devs[1].guest # devs[2].guest
  /\ devs[1].socket = "/tmp/rng.sock0"
  /\ devs[2].socket = "/tmp/rng.sock1"

\* ------------------------------------------------------- the DeviceModel

\* The lowest descriptor number not open in the table `open` (0, 1 and 2 are
\* the standard streams).
LowestFree(open) ==
  CHOOSE n \in 3..(3 + Cardinality(open)) :
    /\ n \notin {e.n : e \in open}
    /\ \A l \in 3..(n - 1) : l \in {e.n : e \in open}

\* An open descriptor: its number and the file it refers to, the control
\* device /dev/bao or the backend of a guest.
Open(n, file, guest_id) == [n |-> n, file |-> file, guest |-> guest_id]

\* BaoDeviceModel::new.  F is the process's descriptor table; opened and
\* created say whether open("/dev/bao") and VM_VIRTIO_BACKEND_CREATE
\* succeed.  The File the control device was opened into is a local of new: it
\* is dropped, and its descriptor closed, when new returns, while the
\* DeviceModel keeps the descriptor's number.
BaoDeviceModel_new(F, guest_id, opened, created) ==
  IF ~opened
  THEN [F |-> F, dm |-> <<>>, res |-> ResErr("OpenFdFailed", "/dev/bao", 0, 0)]
  ELSE LET fd == LowestFree(F.open)
           open1 == F.open \cup {Open(fd, "/dev/bao", guest_id)}
           guest_fd == LowestFree(open1)
           open2 == open1 \cup {Open(guest_fd, "guest", guest_id)}
       IN IF ~created
          THEN [F |-> F, dm |-> <<>>,
                res |-> ResErr("OpenFdFailed", "guest_fd", 0, 0)]
          ELSE [F |-> [F EXCEPT !.open = {e \in open2 : e.n # fd}],
                dm |-> <<[guest_id |-> guest_id, fd |-> fd, guest_fd |-> guest_fd]>>,
                res |-> ResOk(0)]

\* BaoDeviceModel::destroy: VM_VIRTIO_BACKEND_DESTROY on the stored control
\* descriptor number.  The ioctl fails on a number that is not open (EBADF) or
\* that refers to something else than the control device (ENOTTY); the
\* request is logged with what the number referred to.  On success the stored
\* numbers are overwritten with -1; nothing is closed.
destroy(F, dm) ==
  LET refs == {e \in F.open : e.n = dm.fd}
      file == IF refs = {} THEN "closed" ELSE (CHOOSE e \in refs : TRUE).file
      F1 == [F EXCEPT !.destroys =
               Append(@, [guest_id |-> dm.guest_id, fd |-> dm.fd, on |-> file])]
  IN IF file = "/dev/bao"
     THEN [F |-> F1, dm |-> [dm EXCEPT !.fd = -1, !.guest_fd = -1], res |-> ResOk(0)]
     ELSE [F |-> F1, dm |-> dm, res |-> ResErr("BaoIoctlError", "", 0, 0)]

\* --------------------------------------------------------------- the Guest

\* The state the Frontend's operations work on: the vector of Guests, the
\* descriptor table, the registry, the kernel's ioeventfd and irqfd sides and
\* the sockets connected to.
World(gs, F, D, k, q, socks) ==
  [guests |-> gs, fds |-> F, DEVICES |-> D, kernel |-> k, irq |-> q,
   sockets |-> socks]

\* BaoGuest::new: the Guest is created with its DeviceModel and no Device.
BaoGuest_new(F, guest_id, opened, created) ==
  LET r == BaoDeviceModel_new(F, guest_id, opened, created)
  IN [F |-> r.F, res |-> r.res,
      guest |-> IF r.res.kind = "ok"
                THEN <<[id |-> guest_id, dm |-> r.dm[1], devices |-> <<>>]>>
                ELSE <<>>]

\* What BaoDevice::new returns once Generic::new has answered: the Device's
\* construction b has acted on the kernel and on the irqfd requests.
Built(w1, b) ==
  [w |-> [w1 EXCEPT !.kernel = b.k, !.irq = b.q], dev |-> b.dev, res |-> b.res]

\* BaoDevice::new as one call: the lookup, the configuration, Generic::new,
\* and the rest of the construction.
BaoDevice_new(w, id, addr, guest_id, connected, failing) ==
  LET c == compatible(id)
      Err(w1, res) == [w |-> w1, dev |-> <<>>, res |-> res]
  IN IF c \notin DOMAIN w.DEVICES
     THEN Err(w, ResErr("BaoDevNotSupported", c, 0, 0))
     ELSE LET v == VhostUserConfig(w.DEVICES, c, guest_id)
              w1 == [w EXCEPT !.DEVICES = v.D, !.sockets = Append(@, v.cfg)]
              th == [id |-> id, addr |-> addr, guest |-> guest_id,
                     socket |-> v.cfg.socket]
          IN IF ~connected THEN Err(w1, ResErr("VhostFrontendError", "", 0, 0))
             ELSE Built(w1, Build(w1.kernel, w1.irq, th, failing))

\* The insertion of BaoGuest::add_device: a constructed Device joins the
\* Guest at position g, a failed construction adds none.
Inserted(g, r) ==
  [w |-> [r.w EXCEPT !.guests[g].devices = @ \o r.dev], res |-> r.res]

\* BaoGuest::add_device on the Guest at position g of the vector: construct a
\* Device and insert it under its base address.
BaoGuest_add_device(w, g, id, addr, connected, failing) ==
  Inserted(g, BaoDevice_new(w, id, addr, w.guests[g].id, connected, failing))

\* Whether every Arc to the BaoDevice but the Guest's is gone: the Interrupt
\* holds one, and is itself held by the Device's slot and, once activate has
\* received it, by the vhost-user client.
OnlyGuestHolds(d) == d.interrupt = <<>> /\ d.gdev.interrupt_cb = <<>>

\* BaoGuest::remove_device on the Guest at position g: locate the Device by
\* base address, call its exit(), drop it; dropping the last Arc destroys the
\* BaoDevice and runs Drop of its engine.  No Device at that address: nothing
\* is done.  A panic of exit() leaves the Device in place.
BaoGuest_remove_device(w, g, addr, fails) ==
  LET ds == w.guests[g].devices
      at == {i \in 1..Len(ds) : ds[i].addr = addr}
  IN IF at = {} THEN [w |-> w, panic |-> FALSE]
     ELSE LET i == CHOOSE i \in at : TRUE
              e == BaoDevice_exit(ds[i], w.irq, fails)
              rest == [j \in 1..(Len(ds) - 1) |-> IF j < i THEN ds[j] ELSE ds[j + 1]]
          IN IF e.panic
             THEN [w |-> [w EXCEPT !.irq = e.q, !.guests[g].devices[i] = e.d],
                   panic |-> TRUE]
             ELSE [w |-> [w EXCEPT !.irq = e.q,
                                   !.guests[g].devices = rest,
                                   !.kernel = IF OnlyGuestHolds(e.d)
                                              THEN drop(e.d.mmio, @) ELSE @],
                   panic |-> FALSE]

\* BaoGuest::is_empty
BaoGuest_is_empty(guest) == guest.devices = <<>>

\* BaoGuest::exit: the Guest's teardown destroys its DeviceModel; the result
\* of destroy() is not looked at.
BaoGuest_exit(F, guest) == destroy(F, guest.dm).F

\* ------------------------------------------------------------ the Frontend

\* FrontendGuests::find: the position of the Guest with that id, 0 for None.
find(gs, guest_id) ==
  IF \E i \in 1..Len(gs) : gs[i].id = guest_id
  THEN CHOOSE i \in 1..Len(gs) :
         gs[i].id = guest_id /\ \A j \in 1..(i - 1) : gs[j].id # guest_id
  ELSE 0

\* FrontendGuests::add: BaoGuest::new, and on success the push.
add(w, guest_id, opened, created) ==
  LET r == BaoGuest_new(w.fds, guest_id, opened, created)
  IN [w |-> [w EXCEPT !.fds = r.F, !.guests = @ \o r.guest], res |-> r.res]

\* FrontendGuests::remove: the Guest leaves the vector, then exits.
remove(w, guest_id) ==
  LET i == find(w.guests, guest_id)
      gs == w.guests
  IN [w EXCEPT !.guests = [j \in 1..(Len(gs) - 1) |->
                             IF j < i THEN gs[j] ELSE gs[j + 1]],
               !.fds = BaoGuest_exit(@, gs[i])]

\* An add_device that adds a Guest whether or not one with that id is there.
add_device_always_adds(w, guest_id, dev_id, dev_addr, opened, created, connected, failing) ==
  LET a == add(w, guest_id, opened, created)
  IN IF a.res.kind # "ok" THEN a
     ELSE BaoGuest_add_device(a.w, Len(a.w.guests), dev_id, dev_addr,
                              connected, failing)

\* FrontendGuests::add_device: the Guest is found or added, then asked to add
\* the Device.
add_device(w, guest_id, dev_id, dev_addr, opened, created, connected, failing) ==
  LET a == IF find(w.guests, guest_id) # 0 THEN [w |-> w, res |-> ResOk(0)]
           ELSE add(w, guest_id, opened, created)
  IN IF a.res.kind # "ok" THEN a
     ELSE BaoGuest_add_device(a.w, find(a.w.guests, guest_id), dev_id, dev_addr,
                              connected, failing)

\* A remove_device that keeps a Guest that has become empty.
remove_device_keeps_guest(w, guest_id, dev_addr, fails) ==
  LET g == find(w.guests, guest_id)
  IN IF g = 0 THEN [w |-> w, panic |-> TRUE]
     ELSE BaoGuest_remove_device(w, g, dev_addr, fails)

\* FrontendGuests::remove_device: find(guest_id).unwrap() panics when there
\* is no such Guest; the Device is removed from the Guest, and the Guest from
\* the vector when it has become empty.
remove_device(w, guest_id, dev_addr, fails) ==
  LET g == find(w.guests, guest_id)
  IN IF g = 0 THEN [w |-> w, panic |-> TRUE]
     ELSE LET r == BaoGuest_remove_device(w, g, dev_addr, fails)
          IN IF r.panic THEN r
             ELSE IF BaoGuest_is_empty(r.w.guests[g])
             THEN [w |-> remove(r.w, guest_id), panic |-> FALSE]
             ELSE r


\* The configuration workers, and the longest device list of the first.
Workers == {1, 2}
MaxTodo == 2

\* A device of the configuration: its guest, class id and base address.
Config(guest, id, addr) == [guest |-> guest, id |-> id, addr |-> addr]

\* The device lists worker 1 may be configured with for guest 0: classes rng
\* and the unknown 99 at successive base addresses.
Todos ==
  UNION {{[i \in 1..n |-> Config(0, ids[i], DEV_ADDR + 512 * (i - 1))] :
            ids \in [1..n -> {4, 99}]} : n \in 1..MaxTodo}

Worker(todo) == [pc |-> "add", todo |-> todo, last |-> ResOk(0)]

\* Worker 2 has one rng device, for the guest of worker 1 or for guest 1.
InitFrontend ==
  /\ EngineInit({1})
  /\ NoMemory
  /\ NoDevices
  /\ NoLocks
  /\ guests = <<>>
  /\ guests_poisoned = FALSE
  /\ fds = [open |-> {}, destroys |-> <<>>]
  /\ \E todo \in Todos, guest \in {0, 1} :
       workers = <<Worker(todo), Worker(<<Config(guest, 4, DEV_ADDR + 4096)>>)>>

TheWorld == World(guests, fds, DEVICES, kernel, irq, sockets)

\* The operations' outcome becomes the state.
Becomes(w) ==
  /\ guests' = w.guests
  /\ fds' = w.fds
  /\ DEVICES' = w.DEVICES
  /\ kernel' = w.kernel
  /\ irq' = w.irq
  /\ sockets' = w.sockets

\* main.rs:39-47 and BaoFrontend::add_device: the worker adds its next
\* device under the guests mutex (a poisoned mutex makes lock().unwrap()
\* panic, which ends the thread).  On Ok it goes on to the next device, on
\* Err to remove_device.
WorkerAdd(w) ==
  /\ workers[w].pc = "add"
  /\ workers[w].todo # <<>>
  /\ IF guests_poisoned
     THEN /\ workers' = [workers EXCEPT ![w].pc = "dead"]
          /\ UNCHANGED <<guests, fds, DEVICES, kernel, irq, sockets>>
     ELSE \E opened, created, connected \in BOOLEAN, failing \in Failing :
            \E cfg \in {Head(workers[w].todo)} :
            \E r \in {add_device(TheWorld, cfg.guest, cfg.id, cfg.addr,
                                  opened, created, connected, failing)} :
               /\ Becomes(r.w)
               /\ workers' = [workers EXCEPT
                                ![w].last = r.res,
                                ![w].pc = IF r.res.kind = "ok" THEN "add" ELSE "remove",
                                ![w].todo = IF r.res.kind = "ok" THEN Tail(@) ELSE @]
  /\ UNCHANGED <<engineVars, memVars, lockVars, devices_lock, threads, devs, guests_poisoned>>

\* main.rs:54-57 and BaoFrontend::remove_device: after a failed add_device the
\* worker calls remove_device for the same guest and address, under the
\* guests mutex.  A panic inside poisons the mutex and ends the thread.
WorkerRemove(w) ==
  /\ workers[w].pc = "remove"
  /\ IF guests_poisoned
     THEN /\ workers' = [workers EXCEPT ![w].pc = "dead"]
          /\ UNCHANGED <<guests, fds, DEVICES, kernel, irq, sockets, guests_poisoned>>
     ELSE \E fails \in BOOLEAN :
            \E cfg \in {Head(workers[w].todo)} :
            \E r \in {remove_device(TheWorld, cfg.guest, cfg.addr, fails)} :
               /\ Becomes(r.w)
               /\ guests_poisoned' = r.panic
               /\ workers' = [workers EXCEPT
                                ![w].pc = IF r.panic THEN "panicked" ELSE "add",
                                ![w].todo = IF r.panic THEN @ ELSE Tail(@)]
  /\ UNCHANGED <<engineVars, memVars, lockVars, devices_lock, threads, devs>>

\* BaoMmio::activate_device hands a clone of the Device's Interrupt
\* (dev.interrupt()) to the vhost-user client, which activates the backend
\* behind the Device's socket.
Activate(g, i) ==
  /\ ~guests_poisoned
  /\ guests[g].devices[i].interrupt # <<>>
  /\ guests[g].devices[i].gdev.interrupt_cb = <<>>
  /\ guests' = [guests EXCEPT ![g].devices[i].gdev.interrupt_cb =
                                 guests[g].devices[i].interrupt]
  /\ sockets' = [k \in 1..Len(sockets) |->
                  IF sockets[k].socket = guests[g].devices[i].socket
                  THEN [sockets[k] EXCEPT !.activated = TRUE] ELSE sockets[k]]
  /\ UNCHANGED <<engineVars, kernel, memVars, lockVars, DEVICES, devices_lock, threads,
                 devs, irq, guests_poisoned, workers, fds>>

\* BaoFrontend::remove_device called for a Device that was added.
RemoveDevice(g, i) ==
  /\ ~guests_poisoned
  /\ \E fails \in BOOLEAN :
       \E r \in {remove_device(TheWorld, guests[g].id,
                                guests[g].devices[i].addr, fails)} :
          /\ Becomes(r.w)
          /\ guests_poisoned' = r.panic
  /\ UNCHANGED <<engineVars, memVars, lockVars, devices_lock, threads, devs, workers>>

NextFrontend ==
  \/ \E w \in Workers : WorkerAdd(w)
  \/ \E w \in Workers : WorkerRemove(w)
  \/ \E g \in 1..Len(guests) : \E i \in 1..Len(guests[g].devices) : Activate(g, i)
  \/ \E g \in 1..Len(guests) : \E i \in 1..Len(guests[g].devices) : RemoveDevice(g, i)

\* The Frontend with its workers adding the configured devices, and devices
\* being activated and removed.
SpecFrontend == InitFrontend /\ [][NextFrontend]_vars

\* ------------------------------------------------------------------ C20

\* C20: while a DeviceModel exists, its control descriptor and its per-guest
\* descriptor are open and are the ones obtained in new, and every
\* VM_VIRTIO_BACKEND_DESTROY has been issued on an open descriptor of the
\* control device.
C20_DescriptorsStayOpen ==
  /\ \A g \in 1..Len(guests) :
       LET dm == guests[g].dm
       IN /\ Open(dm.fd, "/dev/bao", dm.guest_id) \in fds.open
          /\ Open(dm.guest_fd, "guest", dm.guest_id) \in fds.open
  /\ \A i \in 1..Len(fds.destroys) : fds.destroys[i].on = "/dev/bao"


\* The ids of the Guests in a vector.
GuestIds(gs) == {gs[g].id : g \in 1..Len(gs)}

\* ------------------------------------------------------------------ C14

\* C14: an add_device call of the Frontend that fails with BaoDevNotSupported
\* leaves the Guest map as it was: a guest id that was not present before the
\* call is not present when the call has returned.
C14_FailedAddLeavesGuests ==
  [][\A w \in Workers :
       (/\ workers[w].pc = "add"
        /\ workers'[w].pc = "remove"
        /\ workers'[w].last.err.name = "BaoDevNotSupported")
       => /\ Len(guests') = Len(guests)
          /\ GuestIds(guests') = GuestIds(guests)]_vars

\* ------------------------------------------------------------------ C16

\* C16: the remove_device a worker calls after a failed add_device returns:
\* the worker does not panic in it (so it goes on with its remaining devices
\* and the guests mutex stays usable for later add_device calls).
C16_WorkerSurvivesFailedAdd ==
  \A w \in Workers : workers[w].pc # "panicked"

\* ------------------------------------------------------------------ C12

\* The Devices of guest id gid at base address a in the vector gs.
DeviceAt(gs, gid, a) ==
  UNION {{gs[g].devices[i] :
            i \in {i \in 1..Len(gs[g].devices) : gs[g].devices[i].addr = a}} :
           g \in {g \in 1..Len(gs) : gs[g].id = gid}}

\* The number of Devices the Guest with id gid has in gs.
DeviceCount(gs, gid) ==
  LET at == {g \in 1..Len(gs) : gs[g].id = gid}
  IN IF at = {} THEN 0 ELSE Len(gs[CHOOSE g \in at : TRUE].devices)

\* The base addresses of the configured devices.
DevAddrs == {DEV_ADDR + 512 * i : i \in 0..(MaxTodo - 1)} \cup {DEV_ADDR + 4096}

C26_NegotiatedBeforeActivate ==
  gdev.activations # <<>> => gdev.negCount > 0


\* ------------------------------------------------------------------ C30

\* C30: a QUEUE_READY write of 0 empties the pending-queues list and calls
\* nothing on the backend; from the empty list, activation takes
\* queues_count further QUEUE_READY = 1 writes: the list grows by one entry
\* at a time, only by such writes, and activate is invoked only by the write
\* that finds queues_count - 1 entries pending.
C30_ReadyZeroDrains ==
  [][phase = "live" =>
       /\ (IsWrite(last'.req, VIRTIO_MMIO_QUEUE_READY) /\ last'.req.value = 0)
            => (mmio'.queues = <<>> /\ gdev' = gdev)
       /\ Len(mmio'.queues) > Len(mmio.queues)
            => /\ IsWrite(last'.req, VIRTIO_MMIO_QUEUE_READY)
               /\ last'.req.value = 1
               /\ Len(mmio'.queues) = Len(mmio.queues) + 1
       /\ Len(gdev'.activations) > Len(gdev.activations)
            => /\ IsWrite(last'.req, VIRTIO_MMIO_QUEUE_READY)
               /\ last'.req.value = 1
               /\ Len(mmio.queues) = mmio.queues_count - 1]_vars


\* ------------------------------------------------------------------ C25

\* C25: whatever the interleaving of the workers' add_device and
\* remove_device calls, the Frontend holds at most one Guest per guest id, and
\* an add_device that succeeds for a guest id that is present leaves the
\* vector of Guests with the same Guests on it: none is created.
C25_OneGuestPerId ==
  [][/\ \A g, h \in 1..Len(guests') : g # h => guests'[g].id # guests'[h].id
     /\ \A w \in Workers :
          (/\ workers[w].pc = "add"
           /\ workers'[w].todo # workers[w].todo
           /\ Head(workers[w].todo).guest \in GuestIds(guests))
          => /\ Len(guests') = Len(guests)
             /\ GuestIds(guests') = GuestIds(guests)]_vars

\* C25 witness: both workers have added a Device for guest 0, and the one
\* Guest holds both.
C25_TwoWorkersOneGuest ==
  /\ Len(guests) = 1
  /\ guests[1].id = 0
  /\ Len(guests[1].devices) = 2
  /\ guests[1].devices[1].addr = DEV_ADDR + 4096
  /\ guests[1].devices[2].addr = DEV_ADDR
  /\ \A w \in Workers : workers[w].todo = <<>>


\* ------------------------------------------------------------------ C21

\* C21: an exit() that calls the vhost-user client has deassigned the irqfd
\* of the Device's Interrupt first, and calls reset and then shutdown: the
\* client receives nothing from an exit() whose DEASSIGN the kernel refused,
\* every reset it receives comes after a DEASSIGN request for the Device's
\* call descriptor, and each exit() adds reset followed by shutdown to the
\* calls it has received.
C21_DeassignResetShutdown ==
  [][\A k \in 1..Len(devs) :
       devs'[k].gdev.calls # devs[k].gdev.calls
       => /\ devs'[k].gdev.calls = devs[k].gdev.calls \o <<"reset", "shutdown">>
          /\ ~devs'[k].interrupt_poisoned
          /\ \E i \in 1..Len(irq'.log) :
               irq'.log[i] = BaoIrqFd(devs[k].call, BAO_IRQFD_FLAG_DEASSIGN)]_vars

\* C21 witness: a first exit() has deassigned the irqfd and then reset and
\* shut down the client, while the exit() of another Device stopped at a
\* DEASSIGN the kernel refused.
C21_ExitedInOrder ==
  /\ Len(devs) = 2
  /\ devs[1].exits = 1
  /\ devs[1].interrupt = <<>>
  /\ devs[1].gdev.calls = <<"reset", "shutdown">>
  /\ devs[2].exits = 1
  /\ devs[2].interrupt_poisoned
  /\ devs[2].gdev.calls = <<>>
  /\ Cardinality({i \in 1..Len(irq.log) :
                    irq.log[i].flags = BAO_IRQFD_FLAG_DEASSIGN}) = 2


\* ------------------------------------------------------------------ C22

\* C22: BaoDevice::new holds the registry's mutex for the lookup and the
\* index increment only: a thread that has made its configuration and is
\* connecting to its backend, building the MMIO engine or creating the
\* Interrupt does not hold it, so it keeps no other thread from its lookup.
C22_RegistryReleasedEarly ==
  \A t \in Threads : threads[t].pc = "connected" => devices_lock # t


\* -------------------------------------------------- the decoder's edges

\* Offsets below VHOST_USER_CONFIG_OFFSET that no arm decodes: 24 for neither
\* direction, MAGIC_VALUE not for writes, QUEUE_NOTIFY not for reads.
UndecodedRequests ==
  {R(24), R(VIRTIO_MMIO_QUEUE_NOTIFY), R(VIRTIO_MMIO_INTERRUPT_ACK)}
    \cup W(24, {1})
    \cup W(VIRTIO_MMIO_MAGIC_VALUE, {1})
    \cup W(VIRTIO_MMIO_INTERRUPT_STATUS, {1})

\* Accesses to the device configuration space, 1, 2 and 4 bytes wide, and one
\* whose op is neither READ nor WRITE.
ConfigRequests ==
  {RequestOfWidth(BAO_IO_READ, VHOST_USER_CONFIG_OFFSET + off, 0, w) :
     off \in {0, 4}, w \in {1, 2, 4}}
    \cup {RequestOfWidth(BAO_IO_WRITE, VHOST_USER_CONFIG_OFFSET + 2, 305419896, w) :
            w \in {1, 2, 4}}
    \cup {RequestOfWidth(BAO_IO_ASK, VHOST_USER_CONFIG_OFFSET, 0, 4)}

\* The trapped accesses of a guest at the edges of the decoder: the
\* interrupt registers, undecoded offsets, the configuration space, and the
\* queue selector (the value queues_count selects no queue).
DecodeRequests ==
  {R(VIRTIO_MMIO_INTERRUPT_STATUS)}
    \cup W(VIRTIO_MMIO_INTERRUPT_ACK, {1, 3})
    \cup UndecodedRequests
    \cup ConfigRequests
    \cup W(VIRTIO_MMIO_QUEUE_SEL, 0..mmio.queues_count)

IoEventDecode == Trap(DecodeRequests)

NextDecode == Construct \/ IoEventDecode

\* A guest at the edges of the register decoder of a Device.
SpecDecode == Init /\ [][NextDecode]_vars

\* ------------------------------------------------------------------ C27

\* C27: a read of INTERRUPT_STATUS returns interrupt_state | INT_VRING, so
\* bit 0 is set in what every such read returns, the read that follows an
\* INTERRUPT_ACK write of 1 included; an INTERRUPT_ACK write of v takes the
\* bits of v out of interrupt_state and changes nothing else of the engine.
C27_InterruptStatusAndAck ==
  [][phase = "live" =>
       /\ IsRead(last'.req, VIRTIO_MMIO_INTERRUPT_STATUS)
            => /\ last'.res.kind = "ok"
               /\ Bits(last'.res.value) = mmio.interrupt_state \cup {0}
               /\ mmio' = mmio
       /\ IsWrite(last'.req, VIRTIO_MMIO_INTERRUPT_ACK)
            => /\ last'.res.kind = "ok"
               /\ mmio' = [mmio EXCEPT !.interrupt_state =
                                         @ \ Bits(last'.req.value)]]_vars

\* ------------------------------------------------------------------ C28

\* C28: a READ or WRITE at an offset below VHOST_USER_CONFIG_OFFSET that no
\* arm decodes for its direction fails with InvalidMmioAddr("read", offset)
\* or InvalidMmioAddr("write", offset), calls nothing on the backend and
\* leaves the engine as it was.
C28_UndecodedOffsetRefused ==
  [][(phase = "live" /\ last'.req \in UndecodedRequests) =>
       /\ last'.res.kind = "err"
       /\ last'.res.err =
            [name |-> "InvalidMmioAddr",
             dir |-> IF last'.req.op = BAO_IO_READ THEN "read" ELSE "write",
             num |-> last'.req.reg_off]
       /\ mmio' = mmio
       /\ gdev' = gdev]_vars

\* ------------------------------------------------------------------ C29

\* C29: an access at reg_off >= VHOST_USER_CONFIG_OFFSET goes to the
\* backend's configuration space and leaves the engine as it was: a READ
\* calls read_config once with offset reg_off - VHOST_USER_CONFIG_OFFSET and
\* a buffer of access_width bytes and returns the bytes it got, zero-extended;
\* a WRITE calls write_config once with that offset and the low access_width
\* bytes of the value; any other op fails with InvalidMmioDir and calls
\* nothing.
C29_ConfigSpaceDelegated ==
  [][(phase = "live" /\ last'.req.reg_off >= VHOST_USER_CONFIG_OFFSET) =>
       LET req == last'.req
           offset == req.reg_off - VHOST_USER_CONFIG_OFFSET
           Called(call, data) ==
             gdev' = [gdev EXCEPT !.cfgCount = @ + 1,
                                  !.cfgLast = [call |-> call, offset |-> offset,
                                               len |-> req.access_width,
                                               data |-> data]]
       IN /\ mmio' = mmio
          /\ req.op = BAO_IO_READ =>
               LET bytes == [i \in 1..req.access_width |->
                               IF offset + i <= Len(gdev.config)
                               THEN gdev.config[offset + i] ELSE 0]
               IN /\ Called("read_config", bytes)
                  /\ last'.res.kind = "ok"
                  /\ \A i \in 1..4 :
                       (last'.res.value \div (256 ^ (i - 1))) % 256 =
                         IF i <= req.access_width THEN bytes[i] ELSE 0
          /\ req.op = BAO_IO_WRITE =>
               /\ Called("write_config",
                         [i \in 1..req.access_width |->
                            (req.value \div (256 ^ (i - 1))) % 256])
               /\ last'.res.kind = "ok"
          /\ req.op \notin {BAO_IO_READ, BAO_IO_WRITE} =>
               /\ last'.res.kind = "err"
               /\ last'.res.err.name = "InvalidMmioDir"
               /\ gdev' = gdev]_vars

\* ------------------------------------------------ the threads on a Device

\* The threads that work on one Device.
LockThreads == {1, 2}

\* The steps of a thread that concern the mutexes: Mutex::lock, the drop of
\* the guard, and a panic, which unwinds through every guard the thread holds.
Acq(x) == [e |-> "lock", x |-> x]
Rel(x) == [e |-> "unlock", x |-> x]
Panics == [e |-> "panic", x |-> ""]

\* n calls of create_ioeventfd or create_irqfd, each under guest.dm's guard
\* for the length of the call.
DmCalls(n) == [i \in 1..(2 * n) |-> IF i % 2 = 1 THEN Acq("dm") ELSE Rel("dm")]

\* The mutex steps of BaoDevice::new for a backend with n queues.  The
\* registry's guard is bound to a local and lives to the end of the function.
\* BaoMmio::new asks for one ioeventfd per queue; when the kernel refuses the
\* one for queue failAt, or map_region fails, the partly built engine is
\* dropped, which deassigns the queues created so far.  BaoInterrupt::new
\* asks for the irqfd, and the interrupt is stored in its slot.
BaoDevice_new_locks(n, failAt, mapres) ==
  <<Acq("registry")>>
    \o (IF failAt < n
        THEN DmCalls(failAt + 1) \o DmCalls(failAt) \o <<Rel("registry")>>
        ELSE DmCalls(n)
               \o (CASE mapres = "ok" ->
                          DmCalls(1) \o <<Acq("interrupt"), Rel("interrupt"),
                                          Rel("registry")>>
                     [] mapres = "err" -> DmCalls(n) \o <<Rel("registry")>>
                     [] OTHER -> DmCalls(n) \o <<Panics>>))

\* The mutex steps of BaoMmio::io_event on the engine m for a request whose
\* outcome is o, after BaoDevice::io_event has locked the engine.  The
\* configuration window locks the client before it looks at the direction;
\* io_read and io_write index the selected virtqueue first, io_read then locks
\* the client for the rest of the function; io_write locks it for
\* negotiate_features and for activate, whose arguments self.mem() and
\* dev.interrupt() are evaluated under the client's guard.  A handler that
\* panics releases what it holds by unwinding.
io_event_locks(m, g, req, o) ==
  LET panics == o.res.kind = "panic"
      client == <<Acq("gdev")>> \o (IF panics THEN <<>> ELSE <<Rel("gdev")>>)
      inner ==
        IF req.reg_off >= VHOST_USER_CONFIG_OFFSET THEN client
        ELSE IF req.op \notin {BAO_IO_READ, BAO_IO_WRITE} THEN <<>>
        ELSE IF ~(m.queue_sel < Len(m.vq)) THEN <<>>
        ELSE IF req.op = BAO_IO_READ THEN client
        ELSE IF req.reg_off = VIRTIO_MMIO_DRIVER_FEATURES
        THEN IF o.g.negCount # g.negCount THEN client ELSE <<>>
        ELSE IF /\ req.reg_off = VIRTIO_MMIO_QUEUE_READY
                /\ req.value = 1 /\ req.value_hi = 0
        THEN LET r == init_vq(m)
             IN IF ~r.ok \/ Len(r.m.queues) # r.m.queues_count THEN <<>>
                ELSE <<Acq("gdev")>>
                       \o (IF mem(r.m).ok
                           THEN <<Acq("interrupt"), Rel("interrupt"), Rel("gdev")>>
                           ELSE <<>>)
        ELSE <<>>
  IN inner \o (IF panics THEN <<Panics>> ELSE <<Rel("mmio")>>)

\* The mutex steps of BaoDevice::exit: the interrupt slot's guard is the
\* scrutinee of the `if let` and lives through its body, in which
\* BaoInterrupt::exit locks guest.dm for the DEASSIGN; exit().unwrap() panics
\* when the kernel refuses it.  Then the client is locked for reset and again
\* for shutdown.
BaoDevice_exit_locks(fails) ==
  <<Acq("interrupt"), Acq("dm"), Rel("dm")>>
    \o (IF fails THEN <<Panics>>
        ELSE <<Rel("interrupt"), Acq("gdev"), Rel("gdev"), Acq("gdev"),
               Rel("gdev")>>)

\* The mutex steps of Drop for BaoMmio: a DEASSIGN per virtqueue record.
BaoMmio_drop_locks(m) == DmCalls(Len(m.vq))

\* A thread that is in none of the Device's operations.
NoTask ==
  [op |-> "idle", todo |-> <<>>, held |-> <<>>, req |-> NoRequest, out |-> <<>>,
   res |-> ResOk(0), expect |-> ResOk(0)]

\* A thread entering the operation op, with the mutex steps ahead of it.
Task(op, todo, req, out) ==
  [op |-> op, todo |-> todo, held |-> <<>>, req |-> req, out |-> out,
   res |-> ResOk(0), expect |-> ResOk(0)]

\* A lock that every thread is given at once.
CanLock_shared(mutex) == mutex.holder = mutex.holder

\* Mutex::lock returns the guard once no thread holds it.
CanLock(mutex) == mutex.holder = 0

\* The mutexes after a thread has dropped the guards named in `names`; guards
\* dropped while the thread panics poison their mutexes.
Released(mx, names, panicking) ==
  [x \in Mutexes |->
     IF x \in names
     THEN [holder |-> 0, poisoned |-> mx[x].poisoned \/ panicking]
     ELSE mx[x]]

\* The guards a thread holds, as a set.
Held(t) == {tasks[t].held[i] : i \in 1..Len(tasks[t].held)}

\* A sequence without its last occurrence of x.
DropGuard(held, x) ==
  LET i == CHOOSE k \in 1..Len(held) :
             held[k] = x /\ \A j \in (k + 1)..Len(held) : held[j] # x
  IN SubSeq(held, 1, i - 1) \o SubSeq(held, i + 1, Len(held))


\* The trapped accesses of the vCPUs in the model of the Device's threads:
\* queue selection (the value queues_count selects no queue), a size,
\* QUEUE_READY, a register read and a read of the configuration window.
LockRequests ==
  W(VIRTIO_MMIO_QUEUE_SEL, 0..mmio.queues_count)
    \cup W(VIRTIO_MMIO_QUEUE_NUM, {2})
    \cup W(VIRTIO_MMIO_QUEUE_READY, {1})
    \cup {R(VIRTIO_MMIO_QUEUE_READY),
          RequestOfWidth(BAO_IO_READ, VHOST_USER_CONFIG_OFFSET, 0, 4)}

\* The thread as its operation leaves it: idle, with the result the operation
\* gave its caller.  A panic the handler did not compute itself comes from
\* lock().unwrap() on a poisoned mutex.
Done(t, panicking) ==
  LET k == tasks[t]
  IN [NoTask EXCEPT
        !.res = IF k.out = <<>> \/ k.op # "io"
                THEN (IF panicking THEN ResPanic(k.req.value) ELSE ResOk(0))
                ELSE IF panicking /\ k.out.res.kind # "panic"
                THEN ResPanic(k.req.value)
                ELSE k.out.res,
        !.expect = IF k.op = "io" /\ k.out # <<>> THEN k.expect
                   ELSE IF panicking THEN ResPanic(k.req.value) ELSE ResOk(0)]

\* What the operation of thread t has done to the Device by the time it
\* returns or panics: BaoDevice::new has built the engine, io_event has
\* stored what the handler computed from the engine it found, exit has taken
\* the Device out of service, Drop has deassigned the queues.
Ends(t, panicking) ==
  LET k == tasks[t]
  IN CASE k.op = "new" ->
            /\ phase' = IF k.out.ok THEN "live" ELSE "dropped"
            /\ mmio' = k.out.m
            /\ kernel' = k.out.k
            /\ serial' = [m |-> k.out.m, g |-> gdev, p |-> FALSE]
            /\ UNCHANGED <<gdev, poisoned, last>>
       [] k.op = "io" ->
            /\ IF k.out = <<>>
               THEN /\ last' = [req |-> k.req, res |-> ResPanic(k.req.value)]
                    /\ UNCHANGED <<mmio, gdev, poisoned>>
               ELSE /\ mmio' = k.out.m
                    /\ gdev' = k.out.g
                    /\ poisoned' = (poisoned \/ panicking)
                    /\ last' = [req |-> k.req, res |-> k.out.res]
            /\ UNCHANGED <<phase, kernel, serial>>
       [] k.op = "exit" ->
            /\ phase' = "exited"
            /\ UNCHANGED <<mmio, gdev, kernel, poisoned, last, serial>>
       [] OTHER ->
            /\ phase' = "dropped"
            /\ kernel' = drop(mmio, kernel)
            /\ UNCHANGED <<mmio, gdev, poisoned, last, serial>>

\* A thread calls BaoDevice::new, with whatever the kernel and the operating
\* system will answer.
CallNew(t) ==
  /\ phase = "none"
  /\ \A u \in LockThreads : tasks[u].op = "idle"
  /\ \E failAt \in 0..Len(gdev.queue_max_sizes), mapres \in {"ok", "err", "panic"} :
       \E r \in {new(gdev.queue_max_sizes, kernel, DEV_ADDR, RAM_ADDR, RAM_SIZE,
                     failAt, mapres)} :
         tasks' = [tasks EXCEPT ![t] =
                     Task("new", BaoDevice_new_locks(Len(gdev.queue_max_sizes),
                                                     failAt, mapres),
                          NoRequest, r)]
  /\ UNCHANGED <<engineVars, kernel, mutexes, serial, memVars, deviceVars,
                 frontendVars>>

\* A thread is handed a trapped access and calls BaoDevice::io_event, while
\* another thread may be inside io_event for the same Device.
CallIoEvent(t) ==
  /\ phase = "live"
  /\ tasks[t].op = "idle"
  /\ \A u \in LockThreads : tasks[u].op \in {"idle", "io"}
  /\ \E req \in LockRequests :
       tasks' = [tasks EXCEPT ![t] = Task("io", <<Acq("mmio")>>, req, <<>>)]
  /\ UNCHANGED <<engineVars, kernel, mutexes, serial, memVars, deviceVars,
                 frontendVars>>

\* A thread calls BaoDevice::exit once the accesses have been handled.
CallExit(t) ==
  /\ phase = "live"
  /\ \A u \in LockThreads : tasks[u].op = "idle"
  /\ \E fails \in BOOLEAN :
       tasks' = [tasks EXCEPT ![t] =
                   Task("exit", BaoDevice_exit_locks(fails), NoRequest, <<>>)]
  /\ UNCHANGED <<engineVars, kernel, mutexes, serial, memVars, deviceVars,
                 frontendVars>>

\* The last reference to the Device goes away in a thread, which runs Drop
\* for BaoMmio.
CallDrop(t) ==
  /\ phase = "exited"
  /\ \A u \in LockThreads : tasks[u].op = "idle"
  /\ tasks' = [tasks EXCEPT ![t] =
                 Task("drop", BaoMmio_drop_locks(mmio), NoRequest, <<>>)]
  /\ UNCHANGED <<engineVars, kernel, mutexes, serial, memVars, deviceVars,
                 frontendVars>>

\* Thread t is at a lock().unwrap().  On a poisoned mutex it panics.  On the
\* engine's mutex it enters BaoMmio::io_event: the handler works on the engine
\* and the client it finds, and the access takes its place in the order of the
\* accesses handled so far.
Lock(t) ==
  /\ tasks[t].todo # <<>>
  /\ Head(tasks[t].todo).e = "lock"
  /\ \E x \in {Head(tasks[t].todo).x} :
       /\ CanLock(mutexes[x])
       /\ IF mutexes[x].poisoned
          THEN /\ mutexes' = Released(mutexes, Held(t), TRUE)
               /\ tasks' = [tasks EXCEPT ![t] = Done(t, TRUE)]
               /\ Ends(t, TRUE)
          ELSE /\ mutexes' = [mutexes EXCEPT ![x].holder = t]
               /\ UNCHANGED <<engineVars, kernel>>
               /\ IF x # "mmio"
                  THEN /\ tasks' = [tasks EXCEPT ![t].todo = Tail(@),
                                                 ![t].held = Append(@, x)]
                       /\ UNCHANGED serial
                  ELSE \E build \in Builds(tasks[t].req), bk \in Answers(tasks[t].req) :
                         \E o \in {mmio_io_event(mmio, gdev, tasks[t].req, build, bk)} :
                           \E s \in {io_event(serial.m, serial.g, serial.p,
                                              tasks[t].req, build, bk)} :
                             /\ o.g.negCount <= MaxNegotiate
                             /\ o.g.cfgCount <= MaxConfig
                             /\ tasks' =
                                  [tasks EXCEPT
                                     ![t].todo = io_event_locks(mmio, gdev,
                                                                tasks[t].req, o),
                                     ![t].held = Append(@, x),
                                     ![t].out = o,
                                     ![t].expect = s.res]
                             /\ serial' = [m |-> s.m, g |-> s.g,
                                           p |-> serial.p \/ s.res.kind = "panic"]
  /\ UNCHANGED <<store, obs, memVars, deviceVars, frontendVars>>

\* Thread t drops a guard; with the last one its operation returns.
Unlock(t) ==
  /\ tasks[t].todo # <<>>
  /\ Head(tasks[t].todo).e = "unlock"
  /\ mutexes' = Released(mutexes, {Head(tasks[t].todo).x}, FALSE)
  /\ IF Len(tasks[t].todo) = 1
     THEN /\ tasks' = [tasks EXCEPT ![t] = Done(t, FALSE)]
          /\ Ends(t, FALSE)
     ELSE /\ tasks' = [tasks EXCEPT
                         ![t].todo = Tail(@),
                         ![t].held = DropGuard(@, Head(tasks[t].todo).x)]
          /\ UNCHANGED <<phase, mmio, gdev, kernel, poisoned, last, serial>>
  /\ UNCHANGED <<store, obs, memVars, deviceVars, frontendVars>>

\* Thread t panics inside its operation: unwinding drops the guards it holds
\* and poisons their mutexes.
Panic(t) ==
  /\ tasks[t].todo # <<>>
  /\ Head(tasks[t].todo).e = "panic"
  /\ mutexes' = Released(mutexes, Held(t), TRUE)
  /\ tasks' = [tasks EXCEPT ![t] = Done(t, TRUE)]
  /\ Ends(t, TRUE)
  /\ UNCHANGED <<store, obs, memVars, deviceVars, frontendVars>>

\* The Device before BaoDevice::new, with its threads idle.
InitLocks ==
  /\ EngineInit({1})
  /\ NoMemory /\ NoDevices /\ NoFrontend
  /\ mutexes = [x \in Mutexes |-> Mutex_new]
  /\ tasks = [t \in LockThreads |-> NoTask]
  /\ serial = <<>>

NextLocks ==
  \E t \in LockThreads :
    \/ CallNew(t)
    \/ CallIoEvent(t)
    \/ CallExit(t)
    \/ CallDrop(t)
    \/ Lock(t)
    \/ Unlock(t)
    \/ Panic(t)

\* Two threads working on one Device with a one-queue backend, from its
\* construction to the drop of its engine.
SpecLocks == InitLocks /\ [][NextLocks]_vars


\* -------------------------------------------------------- the lock order

\* C23: every thread acquires the mutexes in an order consistent with
\* registry -> guest -> device -> (engine | client | interrupt): during Device
\* construction, io_event, activation, exit and the engine's drop, no thread
\* acquires an earlier-ranked mutex (guest.dm is the guest's) while it holds a
\* later-ranked one (the engine's, the client's or the interrupt slot's).
C23_LockOrder ==
  LET rank(x) == CASE x = "registry" -> 1 [] x = "dm" -> 2 [] OTHER -> 4
  IN \A t \in LockThreads :
       \A i, j \in 1..Len(tasks[t].held) :
         i < j => rank(tasks[t].held[i]) <= rank(tasks[t].held[j])

\* C24: two trapped accesses to one Device handled by two threads never
\* interleave inside the engine: a thread inside io_event holds the engine's
\* mutex from the first step to the last, at most one thread holds it, and
\* whenever no thread holds it the engine (register file and pending queues),
\* the record of the backend calls, the poisoning and every result returned
\* are those of the accesses handled one after the other in the order in
\* which they took the mutex.
C24_IoEventsSerialised ==
  phase \in {"live", "exited"} =>
    /\ Cardinality({t \in LockThreads : "mmio" \in Held(t)}) <= 1
    /\ \A t \in LockThreads :
         /\ tasks[t].held # <<>> /\ tasks[t].op = "io" =>
              /\ tasks[t].held[1] = "mmio"
              /\ mutexes["mmio"].holder = t
         /\ tasks[t].op = "idle" => tasks[t].res = tasks[t].expect
    /\ (\A t \in LockThreads : "mmio" \notin Held(t)) =>
         /\ mmio = serial.m
         /\ gdev = serial.g
         /\ poisoned = serial.p

\* One thread is inside the handler of a write, holding the engine's and the
\* client's guards, while the other thread waits at the engine's mutex with a
\* different write; and the engine has already been changed by earlier
\* accesses.
C24_TwoAccessesContend ==
  \E t, u \in LockThreads :
    /\ t # u
    /\ phase = "live"
    /\ tasks[t].held = <<"mmio", "gdev">>
    /\ tasks[t].req.op = BAO_IO_WRITE
    /\ tasks[u].op = "io"
    /\ tasks[u].todo = <<Acq("mmio")>>
    /\ tasks[u].req.op = BAO_IO_WRITE
    /\ tasks[u].req # tasks[t].req
    /\ mmio.vq[1].size = 2


\* ------------------------------------------------- the ring half-registers

\* The trapped accesses of a guest that programs the ring addresses: queue
\* selection (the value queues_count selects no queue), a write to a low and
\* a high half-register of the descriptor table and to one half-register of
\* each of the other two rings, two of them with bits above the low word, a
\* read of each, and QUEUE_READY = 1 (which panics for a queue whose size
\* register holds no size a Queue can be built with).
RingRequests ==
  W(VIRTIO_MMIO_QUEUE_SEL, 0..mmio.queues_count)
    \cup {Request64(BAO_IO_WRITE, VIRTIO_MMIO_QUEUE_DESC_LOW, 1, 32),
          Request64(BAO_IO_WRITE, VIRTIO_MMIO_QUEUE_DESC_HIGH, 0, 1),
          Request64(BAO_IO_WRITE, VIRTIO_MMIO_QUEUE_AVAIL_LOW, 2, 6),
          Request64(BAO_IO_WRITE, VIRTIO_MMIO_QUEUE_USED_HIGH, 0, 3)}
    \cup {R(VIRTIO_MMIO_QUEUE_DESC_LOW), R(VIRTIO_MMIO_QUEUE_DESC_HIGH),
          R(VIRTIO_MMIO_QUEUE_AVAIL_LOW), R(VIRTIO_MMIO_QUEUE_USED_HIGH)}
    \cup W(VIRTIO_MMIO_QUEUE_READY, {1})

IoEventRings == Trap(RingRequests)

NextRings == Construct \/ IoEventRings

\* A guest programming the ring addresses of a Device with two queues.
SpecRings == InitWith({2}) /\ [][NextRings]_vars

\* C31: for the queue selected by queue_sel, a write of v to one of the six
\* ring half-registers stores the low 32 bits of v in that half-register and
\* changes nothing else in the engine (no register of another queue, no other
\* half-register of the selected queue, no device-level register), and a read
\* of the same register that follows the write under the same queue_sel
\* returns the low 32 bits of v.
C31_HalfRegisterWriteRead ==
  [][LET field(off) ==
           CASE off = VIRTIO_MMIO_QUEUE_DESC_LOW -> "desc_lo"
             [] off = VIRTIO_MMIO_QUEUE_DESC_HIGH -> "desc_hi"
             [] off = VIRTIO_MMIO_QUEUE_AVAIL_LOW -> "avail_lo"
             [] off = VIRTIO_MMIO_QUEUE_AVAIL_HIGH -> "avail_hi"
             [] off = VIRTIO_MMIO_QUEUE_USED_LOW -> "used_lo"
             [] off = VIRTIO_MMIO_QUEUE_USED_HIGH -> "used_hi"
             [] OTHER -> ""
         half(req) == field(req.reg_off) # ""
     IN /\ (/\ last'.req.op = BAO_IO_WRITE
            /\ half(last'.req)
            /\ mmio.queue_sel < mmio.queues_count)
           => mmio' = [mmio EXCEPT
                         !.vq[mmio.queue_sel + 1][field(last'.req.reg_off)] =
                           last'.req.value]
        /\ (/\ last.req.op = BAO_IO_WRITE
            /\ half(last.req)
            /\ last'.req = R(last.req.reg_off)
            /\ mmio.queue_sel < mmio.queues_count)
           => last'.res = ResOk(last.req.value)]_vars


\* C32: on a freshly constructed engine (no access handled yet) status,
\* queue_sel, device_features_sel, driver_features_sel and driver_features
\* are 0, and for every queue ready, size and the six ring-address
\* half-registers read as 0 (QUEUE_DESC_LOW included) while QUEUE_NUM_MAX
\* reads the maximum the backend advertised for that queue.
C32_FreshEngineReadsZero ==
  (phase = "live" /\ last.req = NoRequest) =>
    /\ io_read(mmio, gdev, R(VIRTIO_MMIO_STATUS), VIRTIO_MMIO_STATUS).res = ResOk(0)
    /\ mmio.queue_sel = 0
    /\ mmio.device_features_sel = 0
    /\ mmio.driver_features_sel = 0
    /\ mmio.driver_features = {}
    /\ Len(mmio.vq) = Len(gdev.queue_max_sizes)
    /\ \A k \in 1..Len(mmio.vq) :
         LET selected == [mmio EXCEPT !.queue_sel = k - 1]
             reads(off) == io_read(selected, gdev, R(off), off).res
         IN /\ reads(VIRTIO_MMIO_QUEUE_READY) = ResOk(0)
            /\ mmio.vq[k].size = 0
            /\ reads(VIRTIO_MMIO_QUEUE_DESC_LOW) = ResOk(0)
            /\ reads(VIRTIO_MMIO_QUEUE_DESC_HIGH) = ResOk(0)
            /\ reads(VIRTIO_MMIO_QUEUE_AVAIL_LOW) = ResOk(0)
            /\ reads(VIRTIO_MMIO_QUEUE_AVAIL_HIGH) = ResOk(0)
            /\ reads(VIRTIO_MMIO_QUEUE_USED_LOW) = ResOk(0)
            /\ reads(VIRTIO_MMIO_QUEUE_USED_HIGH) = ResOk(0)
            /\ reads(VIRTIO_MMIO_QUEUE_NUM_MAX) = ResOk(gdev.queue_max_sizes[k])


\* C33: queue_sel < queues_count holds in every state the guest's writes can
\* reach, so every access that refers to the selected queue refers to an
\* existing virtqueue record.
C33_QueueSelInRange ==
  phase = "live" => mmio.queue_sel < mmio.queues_count /\ mmio.queue_sel < Len(mmio.vq)


\* C34: QUEUE_READY of queue k reads 1 exactly when the queue was readied and
\* has not been torn down since: before activation, ready = 1 implies that a
\* triple with the queue's index is in the pending-queues list (so after a
\* QUEUE_READY = 0 write drained the list, no drained queue reads 1), and a
\* queue with a triple in the list reads 1.
C34_ReadyIffPending ==
  (phase = "live" /\ gdev.activations = <<>>) =>
    \A k \in 1..Len(mmio.vq) :
      LET selected == [mmio EXCEPT !.queue_sel = k - 1]
          ready == io_read(selected, gdev, R(VIRTIO_MMIO_QUEUE_READY),
                           VIRTIO_MMIO_QUEUE_READY).res
      IN ready = ResOk(1) <=>
           \E i \in 1..Len(mmio.queues) : mmio.queues[i].index = k - 1


\* ------------------------------------------ the queues handed to the backend

\* The trapped accesses of a guest that sizes, places and readies its queues:
\* sizes within the advertised maximum, above it, and above 16 bits; the low
\* half of the descriptor table's address (a fresh queue holds 77 there,
\* which breaks the table's alignment); QUEUE_READY = 1.
TripleRequests ==
  W(VIRTIO_MMIO_QUEUE_SEL, 0..(mmio.queues_count - 1))
    \cup W(VIRTIO_MMIO_QUEUE_NUM, {2, 8, 65538})
    \cup W(VIRTIO_MMIO_QUEUE_DESC_LOW, {32})
    \cup W(VIRTIO_MMIO_QUEUE_READY, {1})

IoEventTriples == Trap(TripleRequests)

NextTriples == Construct \/ IoEventTriples

\* A guest bringing up the queues of a Device with two queues.
SpecTriples == InitWith({2}) /\ [][NextTriples]_vars


\* C35: the triple (i, queue, eventfd) that a QUEUE_READY = 1 write adds to
\* the pending list, or hands to the backend when it completes the list, has
\* i equal to the queue_sel in force, an eventfd that refers to the kick
\* eventfd whose route was installed with data = i, and a queue of the size
\* in queue i's size register with descriptor, available and used addresses
\* made of queue i's half-registers as they are at that write, and next-avail
\* index 0; the triples pending before the write are handed over as they are.
C35_TripleAsReadied ==
  [][(/\ last'.req = Request(BAO_IO_WRITE, VIRTIO_MMIO_QUEUE_READY, 1)
      /\ last'.res.kind # "panic")
     => LET activated == gdev'.activations # gdev.activations
            handed == IF activated
                      THEN gdev'.activations[Len(gdev'.activations)].queues
                      ELSE mmio'.queues
            vq == mmio.vq[mmio.queue_sel + 1]
            t == handed[Len(handed)]
        IN /\ handed = Append(mmio.queues, t)
           /\ t.index = mmio.queue_sel
           /\ \E r \in kernel.routes : r.efd = t.kick.obj /\ r.data = t.index
           /\ t.queue.size = vq.size
           /\ t.queue.desc = [lo |-> vq.desc_lo, hi |-> vq.desc_hi]
           /\ t.queue.avail = [lo |-> vq.avail_lo, hi |-> vq.avail_hi]
           /\ t.queue.used = [lo |-> vq.used_lo, hi |-> vq.used_hi]
           /\ t.queue.next_avail = 0]_vars

\* C38: every queue handed to the backend at activation has a size s with
\* 0 < s <= size_max of that queue, the maximum the backend advertised: a
\* QUEUE_NUM value above size_max never reaches the backend.
C38_SizeWithinMax ==
  \A a \in 1..Len(gdev.activations) :
    \A i \in 1..Len(gdev.activations[a].queues) :
      LET t == gdev.activations[a].queues[i]
      IN /\ 0 < t.queue.size
         /\ t.queue.size <= gdev.queue_max_sizes[t.index + 1]


\* -------------------------------------------------- teardown of the routes

\* C36: the DEASSIGN request issued at teardown for queue k equals the ASSIGN
\* request issued at construction for queue k in every field other than
\* flags; in particular it names the same file-descriptor number.
C36_DeassignNamesAssignedFd ==
  \A j \in 1..Len(kernel.log) :
    kernel.log[j].ev.flags = BAO_IOEVENTFD_FLAG_DEASSIGN =>
      \E i \in 1..(j - 1) :
        /\ kernel.log[i].ev.flags = BAO_IOEVENTFD_FLAG_DATAMATCH
        /\ kernel.log[i].ev.data = kernel.log[j].ev.data
        /\ kernel.log[i].ev = [kernel.log[j].ev EXCEPT
                                 !.flags = BAO_IOEVENTFD_FLAG_DATAMATCH]


\* ------------------------------------------------------- the frame of a read

\* C37: a trapped READ, of a register or of the configuration space, whether
\* it succeeds or fails, leaves the engine as it was (register file,
\* per-queue records, pending-queues list, mapped regions) and makes no
\* negotiate_features, activate or write_config call on the backend.
C37_ReadLeavesEngine ==
  [][last'.req.op = BAO_IO_READ
     => /\ mmio' = mmio
        /\ gdev'.negCount = gdev.negCount
        /\ gdev'.negLast = gdev.negLast
        /\ gdev'.activations = gdev.activations
        /\ gdev'.cfgLast.call = "write_config" => gdev' = gdev]_vars

\* A read of the configuration space has been answered by the backend, after
\* the guest had selected the second queue.
C37_ConfigReadAnswered ==
  /\ last.req.op = BAO_IO_READ
  /\ last.req.reg_off >= VHOST_USER_CONFIG_OFFSET
  /\ last.res.kind = "ok"
  /\ gdev.cfgLast.call = "read_config"
  /\ mmio.queue_sel = 1


\* ------------------------------------------------------------------ C39

\* C39: a construction that fails after the registry lookup succeeded does
\* not lose the index it took: the socket indices of the successfully
\* constructed Devices of a class are 0, 1, 2, ... without gaps, the k-th of
\* them connected to {prefix}{name}.sock{k-1}.
C39_NoIndexLost ==
  \A k \in 1..Len(devs) :
    LET built == {j \in 1..(k - 1) : devs[j].id = devs[k].id}
    IN devs[k].socket =
         socket_path \o DEVICES[compatible(devs[k].id)].name \o ".sock"
           \o ToString(Cardinality(built))


\* ------------------------------------ an access, an exit and a construction

\* Three threads on one Guest: one inside BaoDevice::io_event for a Device,
\* one inside BaoDevice::exit for the same Device, one inside BaoDevice::new
\* for another Device of the Guest.
RaceThreads == {1, 2, 3}

\* The accesses of the first thread: the QUEUE_READY write that builds the
\* Device's only queue and activates the backend, a register read and a read
\* in the configuration window.
RaceRequests ==
  W(VIRTIO_MMIO_QUEUE_READY, {1})
    \cup {R(VIRTIO_MMIO_QUEUE_READY),
          RequestOfWidth(BAO_IO_READ, VHOST_USER_CONFIG_OFFSET, 0, 4)}

\* The Device is live, its guest has written the size of the queue, and each
\* thread has made its call and holds nothing yet.  The new Device's own
\* interrupt slot is a mutex no other thread can reach, so BaoDevice::new's
\* steps on it are left out.
InitRace ==
  /\ phase = "live"
  /\ gdev = Backend(<<QueueSizeMax>>)
  /\ \E b \in {Build([routes |-> {}, log |-> <<>>], [eventfds |-> 0, log |-> <<>>],
                     [id |-> 4, addr |-> DEV_ADDR, guest |-> 1, socket |-> ""], "")} :
       /\ kernel = b.k
       /\ irq = b.q
       /\ devs = b.dev
       /\ mmio = mmio_io_event(b.dev[1].mmio, gdev,
                               Request(BAO_IO_WRITE, VIRTIO_MMIO_QUEUE_NUM, 2),
                               "release", "ok").m
  /\ poisoned = FALSE
  /\ last = [req |-> NoRequest, res |-> ResOk(0)]
  /\ store = NoStore
  /\ obs = NoObs
  /\ NoMemory /\ NoFrontend
  /\ DEVICES = DEVICES_new
  /\ devices_lock = 0
  /\ threads = <<>>
  /\ sockets = <<>>
  /\ mutexes = [x \in Mutexes |-> Mutex_new]
  /\ serial = <<>>
  /\ \E req \in RaceRequests :
       tasks = [t \in RaceThreads |->
                  CASE t = 1 -> Task("io", <<Acq("mmio")>>, req, <<>>)
                    [] t = 2 -> Task("exit", BaoDevice_exit_locks(FALSE), NoRequest, <<>>)
                    [] OTHER -> Task("new",
                                     SelectSeq(BaoDevice_new_locks(1, 1, "ok"),
                                               LAMBDA s : s.x # "interrupt"),
                                     NoRequest, <<>>)]

\* What thread t does as it leaves its call.  io_event stores what the handler
\* computed, or leaves the engine's mutex poisoned when the handler panicked;
\* BaoDevice::new has built the second Device.
RaceEnds(t, panicking) ==
  /\ tasks' = [tasks EXCEPT ![t] = Done(t, panicking)]
  /\ CASE tasks[t].op = "io" /\ tasks[t].out # <<>> /\ ~panicking ->
            /\ mmio' = tasks[t].out.m
            /\ gdev' = tasks[t].out.g
            /\ last' = [req |-> tasks[t].req, res |-> tasks[t].out.res]
            /\ UNCHANGED <<poisoned, kernel, irq, devs>>
       [] tasks[t].op = "io" /\ (tasks[t].out = <<>> \/ panicking) ->
            /\ poisoned' = (poisoned \/ "mmio" \in Held(t))
            /\ last' = [req |-> tasks[t].req, res |-> ResPanic(tasks[t].req.value)]
            /\ UNCHANGED <<mmio, gdev, kernel, irq, devs>>
       [] tasks[t].op = "new" /\ ~panicking ->
            \E b \in {Build(kernel, irq,
                            [id |-> 4, addr |-> DEV_ADDR + 512, guest |-> 1,
                             socket |-> ""], "")} :
              /\ kernel' = b.k
              /\ irq' = b.q
              /\ devs' = devs \o b.dev
              /\ UNCHANGED <<mmio, gdev, poisoned, last>>
       [] OTHER -> UNCHANGED <<mmio, gdev, poisoned, last, kernel, irq, devs>>

\* Thread t is at a lock().unwrap(): it waits while another thread holds the
\* guard and panics on a poisoned mutex.  Under the engine's guard io_event
\* runs the handler; under the interrupt slot's guard activate_device's
\* dev.interrupt() unwraps the slot (device.rs:227) and panics when exit()
\* has emptied it, while exit() takes the Interrupt out; under guest.dm's
\* guard exit() deassigns the irqfd; under the client's guard it resets the
\* client, then shuts it down.
RaceLock(t) ==
  /\ tasks[t].todo # <<>>
  /\ Head(tasks[t].todo).e = "lock"
  /\ \E x \in {Head(tasks[t].todo).x} :
       /\ CanLock(mutexes[x])
       /\ IF mutexes[x].poisoned
          THEN /\ mutexes' = Released(mutexes, Held(t), TRUE)
               /\ RaceEnds(t, TRUE)
          ELSE /\ mutexes' = [mutexes EXCEPT ![x].holder = t]
               /\ UNCHANGED <<mmio, gdev, poisoned, last, kernel>>
               /\ CASE tasks[t].op = "io" /\ x = "mmio" ->
                         /\ \E build \in Builds(tasks[t].req), bk \in Answers(tasks[t].req) :
                              \E o \in {mmio_io_event(mmio, gdev, tasks[t].req, build, bk)} :
                                tasks' = [tasks EXCEPT
                                            ![t].todo = io_event_locks(mmio, gdev,
                                                                       tasks[t].req, o),
                                            ![t].held = Append(@, x),
                                            ![t].out = o]
                         /\ UNCHANGED <<devs, irq>>
                    [] tasks[t].op = "io" /\ x = "interrupt" ->
                         /\ tasks' = [tasks EXCEPT
                                        ![t].todo = IF devs[1].interrupt = <<>>
                                                    THEN <<Panics>> ELSE Tail(@),
                                        ![t].held = Append(@, x)]
                         /\ devs' = [devs EXCEPT ![1].gdev.interrupt_cb =
                                                   devs[1].interrupt]
                         /\ UNCHANGED irq
                    [] tasks[t].op = "exit" /\ x = "interrupt" ->
                         \E v \in {take(devs[1].interrupt)} :
                           /\ tasks' = [tasks EXCEPT
                                          ![t].todo = IF v.value = <<>>
                                                      THEN SubSeq(@, 4, Len(@))
                                                      ELSE Tail(@),
                                          ![t].held = Append(@, x),
                                          ![t].out = v.value]
                           /\ devs' = [devs EXCEPT ![1].interrupt = v.slot]
                           /\ UNCHANGED irq
                    [] tasks[t].op = "exit" /\ x = "dm" ->
                         /\ tasks' = [tasks EXCEPT ![t].todo = Tail(@),
                                                   ![t].held = Append(@, x)]
                         /\ irq' = BaoInterrupt_exit(irq, tasks[t].out[1], FALSE).q
                         /\ UNCHANGED devs
                    [] tasks[t].op = "exit" /\ x = "gdev" ->
                         /\ tasks' = [tasks EXCEPT ![t].todo = Tail(@),
                                                   ![t].held = Append(@, x)]
                         /\ devs' = [devs EXCEPT ![1].gdev =
                                       IF Len(tasks[t].todo) > 2
                                       THEN reset(@) ELSE shutdown(@)]
                         /\ UNCHANGED irq
                    [] OTHER ->
                         /\ tasks' = [tasks EXCEPT ![t].todo = Tail(@),
                                                   ![t].held = Append(@, x)]
                         /\ UNCHANGED <<devs, irq>>
  /\ UNCHANGED <<phase, store, obs, memVars, DEVICES, devices_lock, threads,
                 sockets, frontendVars, serial>>

\* Thread t drops a guard; with the last one its call returns.
RaceUnlock(t) ==
  /\ tasks[t].todo # <<>>
  /\ Head(tasks[t].todo).e = "unlock"
  /\ mutexes' = Released(mutexes, {Head(tasks[t].todo).x}, FALSE)
  /\ IF Len(tasks[t].todo) = 1
     THEN RaceEnds(t, FALSE)
     ELSE /\ tasks' = [tasks EXCEPT
                         ![t].todo = Tail(@),
                         ![t].held = DropGuard(@, Head(tasks[t].todo).x)]
          /\ UNCHANGED <<mmio, gdev, poisoned, last, kernel, irq, devs>>
  /\ UNCHANGED <<phase, store, obs, memVars, DEVICES, devices_lock, threads,
                 sockets, frontendVars, serial>>

\* Thread t panics inside its call: unwinding drops the guards it holds and
\* poisons their mutexes.
RacePanic(t) ==
  /\ tasks[t].todo # <<>>
  /\ Head(tasks[t].todo).e = "panic"
  /\ mutexes' = Released(mutexes, Held(t), TRUE)
  /\ RaceEnds(t, TRUE)
  /\ UNCHANGED <<phase, store, obs, memVars, DEVICES, devices_lock, threads,
                 sockets, frontendVars, serial>>

RaceStep(t) == RaceLock(t) \/ RaceUnlock(t) \/ RacePanic(t)

NextRace == \E t \in RaceThreads : RaceStep(t)

\* The three calls under a fair scheduler: a thread that can take a step
\* takes one.  Each thread makes one call, so a thread waiting for a mutex
\* finds it free from some point on.
SpecRace ==
  /\ InitRace
  /\ [][NextRace]_vars
  /\ \A t \in RaceThreads : WF_vars(RaceStep(t))

\* C40: an io_event, an exit() on the same Device and the construction of
\* another Device of the Guest, run concurrently under a fair scheduler with
\* a backend that answers, each eventually return to their callers.
C40_EachCallReturns ==
  \A t \in RaceThreads : <>(tasks[t].op = "idle" /\ tasks[t].res.kind # "panic")

====
